---- MODULE Spec2Model ----
(***************************************************************************)
(* Model of the OTLP mock receiver: the buffered, rotating JSON output     *)
(* writer (output/jsonfile.go), the allowlist with its hot-reload watcher  *)
(* (allowlist/allowlist.go), the request workers of the two front ends     *)
(* (receiver/receiver.go) and the shutdown sequence of main (main.go).     *)
(***************************************************************************)
EXTENDS Integers, Sequences, FiniteSets, TLC

(* ------------------------------ bounds --------------------------------- *)
NumWorkers == 2
MaxEntries == 3
MaxBatch == 2
MaxBufferSize == 2
MaxChanges == 2
MaxBodyLength == 3

(* ----------------------------- processes ------------------------------- *)
Workers == 1..NumWorkers
Flusher == NumWorkers + 1
MainProc == NumWorkers + 2
Watcher == NumWorkers + 3
Observer == NumWorkers + 4
Procs == Workers \cup {Flusher, MainProc, Watcher, Observer}

\* odd workers serve the gRPC front end (Export), even ones the HTTP front end (handleLogs)
IsGRPC(w) == w % 2 = 1

\* -output-buffer-size values; make([]*LogEntry, 0, n) panics for n < 0
BufferSizes == 0..MaxBufferSize
\* rotation thresholds in lines: small ones as in the rotation test, 100 for main's 100MB
MaxFileSizes == {1, 100}

VARIABLES
    jsonWriterSet, \* receiver.jsonWriter != nil (-output-file given)
    allowlistSet,  \* receiver.appAllowlist != nil (-allowlist given)
    badEntries,    \* the entries json.Marshal returns an error for
    ioFaults,      \* os.Rename and os.OpenFile can fail in a rotation
    samplingSet,   \* receiver.samplingConfig != nil (-sample-rate greater than 1)
    sampleRate,    \* -sample-rate, SamplingConfig.SampleRate
    sampleDebugOnly, \* -sample-debug-only, SamplingConfig.SampleDebugOnly
    hash,          \* the content hash ShouldSample computes, by severity and body
    wLr,           \* the severity, body and other content of the record a worker processes
    rules,         \* the []RoutingRule the router was built from
    router,        \* receiver.router: r.rules, sorted and compiled
    rtRecord,      \* the record handed to router.Route
    rtResult,      \* what Route returned for it
    trIn,          \* history: the record as it was handed to Apply
    trLr,          \* Apply: the record, changed in place
    trActions,     \* Apply: actions
    trTodo,        \* Apply: the old keys the range over cfg.FieldRenames has yet to visit
    trIdx,         \* Apply: the index of the range over FieldsToDelete / PCIPatterns
    trPc,          \* Apply: the step it is at
    trChanged,     \* history: the steps of this Apply that changed the record, in order
    trPrev,        \* history: input and results of the Apply before this one
    buffer,        \* w.buffer: entries appended and not yet flushed
    file,          \* lines of the file at w.path
    rotated,       \* <<>> when path.1 does not exist, <<lines>> when it does
    handle,        \* w.file: "open" or "closed"
    bufferSize,    \* w.bufferSize
    maxFileSize,   \* w.maxFileSize
    mu,            \* w.mu: the set of processes holding it
    stop,          \* w.stop is closed
    done,          \* w.done is closed
    pc,            \* position of every process
    wEntry,        \* the entry a worker is handing to Write (0: none)
    nextId,        \* next entry identity
    grpcServing,   \* the gRPC server accepts new requests
    httpServing,   \* the HTTP server accepts new requests
    stopWatcher,   \* main's stopWatcher channel is closed
    appended,      \* history: entries in the order Write appended them
    preClose,      \* history: entries whose Write returned before Close was called
    apps,          \* al.apps: the set of lower-case identifiers
    alFile,        \* lines of the allowlist file
    alReadable,    \* the allowlist file can be opened
    events,        \* pending fsnotify events of the allowlist file
    changesLeft,   \* how many more changes the environment makes to the file
    newList,       \* reload: the set LoadFromFile produced
    rwReaders,     \* al.mu: workers holding the read lock
    rwPending,     \* al.mu: Lock() has been called and waits for the readers
    wRec,          \* the record a worker evaluates
    wEmpty,        \* IsAllowed: len(al.apps) == 0 was observed
    wAllowed,      \* IsAllowed: the value returned
    wSeen,         \* history: al.apps when the worker took the read lock
    stats,         \* receiver.stats: the four atomic counters
    obs,           \* handleHealth: the counter values loaded so far
    wBatch,        \* the records of a worker's batch that are still to be received
    batchIds,      \* history: <<first, last>> entry identities of every batch taken
    preShutdown    \* history: workers whose batch was started before the signal

cfgVars == <<jsonWriterSet, allowlistSet, badEntries, ioFaults, samplingSet, sampleRate, sampleDebugOnly, hash, rules,
             router, bufferSize, maxFileSize>>
routeVars == <<rtRecord, rtResult>>
smpVars == <<wLr>>
trVars == <<trIn, trLr, trActions, trTodo, trIdx, trPc, trChanged, trPrev>>
fileVars == <<file, rotated, handle>>
chanVars == <<stop, done, stopWatcher>>
srvVars == <<grpcServing, httpServing>>
histVars == <<appended, preClose>>
alVars == <<apps, alFile, alReadable, events, changesLeft, newList, rwReaders, rwPending>>
reqVars == <<wEntry, nextId, wRec, wEmpty, wAllowed, wSeen>>
rcvVars == <<stats, obs, wBatch, batchIds, preShutdown>>

vars == <<cfgVars, routeVars, trVars, smpVars, rcvVars, buffer, fileVars, mu, chanVars, pc, srvVars, histVars, alVars, reqVars>>

Range(s) == {s[i] : i \in 1..Len(s)}

(* ------------------- allowlist: loading and lookup --------------------- *)

\* characters: a, b lower case, A upper case, blank and the comment marker
Lower(c) == IF c = "A" THEN "a" ELSE c

\* strings.ToLower
ToLower(s) == [i \in 1..Len(s) |-> Lower(s[i])]

\* strings.TrimSpace
RECURSIVE TrimLeft(_)
TrimLeft(s) == IF s # <<>> /\ Head(s) = " " THEN TrimLeft(Tail(s)) ELSE s
RECURSIVE TrimRight(_)
TrimRight(s) == IF s # <<>> /\ s[Len(s)] = " " THEN TrimRight(SubSeq(s, 1, Len(s) - 1)) ELSE s
TrimSpace(s) == TrimRight(TrimLeft(s))

\* a constructor that keeps the names that are empty after trimming
NewAllowlistKeepsEmpty(names) ==
    {ToLower(TrimSpace(names[i])) : i \in 1..Len(names)}

\* NewAllowlist: trimmed, non-empty, lower-cased
NewAllowlist(names) ==
    {ToLower(TrimSpace(names[i])) : i \in {j \in 1..Len(names) : TrimSpace(names[j]) # <<>>}}

\* a scanner loop that looks for the comment marker before it trims the line
KeptLinesUntrimmed(lines) ==
    SelectSeq(lines, LAMBDA l : TrimSpace(l) # <<>> /\ Head(l) # "#")

\* LoadFromFile, the scanner loop: blank lines and comments are skipped
KeptLines(lines) ==
    SelectSeq(lines, LAMBDA l : TrimSpace(l) # <<>> /\ Head(TrimSpace(l)) # "#")

LoadFromFile(lines) ==
    NewAllowlist([i \in 1..Len(KeptLines(lines)) |-> TrimSpace(KeptLines(lines)[i])])

\* slices of names NewAllowlist is called with: with an empty name, with a blank one,
\* and without either
NameLists ==
    { <<<<"a">>, <<>>>>,
      <<<<" ">>, <<"B", " ">>>>,
      <<<<"A">>>> }

\* contents the allowlist file takes
FileContents ==
    { <<<<"a">>, <<"A", " ">>>>,
      <<<<" ", "A">>, <<"b", " ">>>>,
      <<<<"#", "a">>, <<" ">>, <<" ", "#", "b">>>> }

\* records, by the string values of their cf_app_name and application_name attributes
\* (<<>>: attribute absent)
Records ==
    { [cf |-> <<"A">>, app |-> <<>>],
      [cf |-> <<>>, app |-> <<"b">>],
      [cf |-> <<"b">>, app |-> <<"a">>],
      [cf |-> <<>>, app |-> <<>>] }

\* a lookup that reads cf_app_name only
AppNameWithoutFallback(rec) == rec.cf

\* IsAllowed on a fixed set
AppName(rec) == IF rec.cf # <<>> THEN rec.cf ELSE rec.app
AllowedIn(set, rec) == set = {} \/ ToLower(AppName(rec)) \in set

NoRecord == [cf |-> <<>>, app |-> <<>>]

(* ------------------------------- routing ------------------------------- *)

\* logspb.SeverityNumber values of the four tiers
SeverityDebug == 5
SeverityInfo == 9
SeverityWarn == 13
SeverityError == 17

\* regexp.MustCompile for the patterns in use: an optional ^, a literal, an optional $
Compile(p) ==
    LET start == p # <<>> /\ p[1] = "^"
        end == Len(p) > (IF start THEN 1 ELSE 0) /\ p[Len(p)] = "$"
    IN [start |-> start,
        end |-> end,
        lit |-> SubSeq(p, IF start THEN 2 ELSE 1, IF end THEN Len(p) - 1 ELSE Len(p))]

\* (*regexp.Regexp).MatchString: the literal occurs in v, at the start and at the end
\* when anchored
MatchString(re, v) ==
    \E i \in 1..(Len(v) + 1) :
        LET j == i + Len(re.lit) - 1 IN
        /\ j <= Len(v)
        /\ SubSeq(v, i, j) = re.lit
        /\ re.start => i = 1
        /\ re.end => j = Len(v)

\* a compiled rule: the severity pattern is not a regex and is stored as nil
Nil == [nil |-> TRUE]
CompileRule(rule) ==
    [Name |-> rule.Name,
     Conditions |-> [k \in DOMAIN rule.Conditions |->
                        IF k = "_severity" THEN Nil ELSE Compile(rule.Conditions[k])],
     Index |-> rule.Index,
     Priority |-> rule.Priority]

\* NewRouter: the rules sorted by priority and compiled; sort.Slice is not stable, so
\* rules of equal priority come out in any order
NewRouter(rs) ==
    {[i \in 1..Len(rs) |-> CompileRule(rs[perm[i]])] :
        perm \in {f \in [1..Len(rs) -> 1..Len(rs)] :
                    /\ \A i, j \in 1..Len(rs) : f[i] = f[j] => i = j
                    /\ \A i, j \in 1..Len(rs) :
                          i < j => ~(rs[f[j]].Priority < rs[f[i]].Priority)}}

\* DefaultRouter: "^security-", "^audit-" and "^production$" with s, a and p standing
\* for the words
DefaultRules ==
    << [Name |-> "error-severity", Conditions |-> ("_severity" :> "error"),
        Index |-> "tas_errors", Priority |-> 1],
       [Name |-> "security-app", Conditions |-> ("cf_app_name" :> <<"^", "s">>),
        Index |-> "tas_security", Priority |-> 2],
       [Name |-> "audit-app", Conditions |-> ("cf_app_name" :> <<"^", "a">>),
        Index |-> "tas_audit", Priority |-> 3],
       [Name |-> "production-space", Conditions |-> ("cf_space_name" :> <<"^", "p", "$">>),
        Index |-> "tas_prod", Priority |-> 4] >>
DefaultRouter == CHOOSE r \in NewRouter(DefaultRules) : TRUE

\* getAttributeValue: the string value of the first attribute with the key, "" if none
RECURSIVE getAttributeValue(_, _)
getAttributeValue(attrs, key) ==
    IF attrs = <<>> THEN <<>>
    ELSE IF Head(attrs).key = key THEN Head(attrs).value
    ELSE getAttributeValue(Tail(attrs), key)

\* matchesSeverity
matchesSeverity(lr, pattern) ==
    CASE pattern = "error" -> lr.severity >= SeverityError
      [] pattern = "warn" -> lr.severity >= SeverityWarn
      [] pattern = "info" -> lr.severity >= SeverityInfo
      [] pattern = "debug" -> lr.severity >= SeverityDebug
      [] OTHER -> FALSE

\* matchesRule, the loop body for one condition of a compiled rule
matchesCondition(lr, rule, attrName) ==
    IF attrName = "_severity"
    THEN matchesSeverity(lr, "error")
    ELSE /\ getAttributeValue(lr.attrs, attrName) # <<>>
         /\ MatchString(rule.Conditions[attrName], getAttributeValue(lr.attrs, attrName))

\* matchesRule: every condition holds
matchesRule(lr, rule) ==
    \A attrName \in DOMAIN rule.Conditions : matchesCondition(lr, rule, attrName)

\* Route: the first rule that matches, else the default index
RECURSIVE Route(_, _)
Route(rs, lr) ==
    IF rs = <<>> THEN [index |-> "tas_logs", ruleName |-> "default"]
    ELSE IF matchesRule(lr, Head(rs)) THEN [index |-> Head(rs).Index, ruleName |-> Head(rs).Name]
    ELSE Route(Tail(rs), lr)

\* rule sets given to NewRouter: the default ones and custom ones with other tiers,
\* a pattern that matches the empty string, two conditions in one rule, equal
\* priorities and rules listed out of priority order
RuleSets ==
    { DefaultRules,
      << [Name |-> "blank-space", Conditions |-> ("cf_space_name" :> <<"^", "$">>),
          Index |-> "blank", Priority |-> 2],
         [Name |-> "warn-up", Conditions |-> ("_severity" :> "warn"),
          Index |-> "warnings", Priority |-> 1] >>,
      << [Name |-> "info-up", Conditions |-> ("_severity" :> "info"),
          Index |-> "infos", Priority |-> 1],
         [Name |-> "any-space", Conditions |-> ("cf_space_name" :> <<>>),
          Index |-> "spaces", Priority |-> 2] >>,
      << [Name |-> "debug-up", Conditions |-> ("_severity" :> "debug"),
          Index |-> "debugs", Priority |-> 7] >>,
      << [Name |-> "security-errors",
          Conditions |-> ("_severity" :> "error" @@ "cf_app_name" :> <<"^", "s">>),
          Index |-> "sec_err", Priority |-> 1],
         [Name |-> "has-s", Conditions |-> ("cf_app_name" :> <<"s">>),
          Index |-> "has_s", Priority |-> 1] >>,
      << [Name |-> "late", Conditions |-> ("cf_app_name" :> <<"^", "s">>),
          Index |-> "late", Priority |-> 5],
         [Name |-> "early", Conditions |-> ("cf_app_name" :> <<"s">>),
          Index |-> "early", Priority |-> 3] >> }

\* records handed to Route: severity number and string attributes in order
RouteSeverities == {0, 5, 9, 13, 17, 21}
RouteAttributes ==
    { <<>>,
      <<[key |-> "cf_app_name", value |-> <<"s", "x">>]>>,
      <<[key |-> "cf_app_name", value |-> <<"x", "s">>]>>,
      <<[key |-> "cf_app_name", value |-> <<"a">>]>>,
      <<[key |-> "cf_app_name", value |-> <<>>]>>,
      <<[key |-> "cf_app_name", value |-> <<"x">>], [key |-> "cf_space_name", value |-> <<"p">>]>>,
      <<[key |-> "cf_space_name", value |-> <<"p">>], [key |-> "cf_app_name", value |-> <<"s">>]>>,
      <<[key |-> "cf_space_name", value |-> <<"p", "x">>]>>,
      <<[key |-> "cf_space_name", value |-> <<>>]>> }
RouteRecords == {[severity |-> v, attrs |-> a] : v \in RouteSeverities, a \in RouteAttributes}

\* before Route was called
NoRouteRecord == [severity |-> 0, attrs |-> <<>>, none |-> TRUE]
NoRouteResult == [index |-> "", ruleName |-> ""]

(* ------------------------------- sampling ------------------------------ *)

\* logspb.SeverityNumber values used by the tests of ShouldSample besides the tiers
SeverityUnspecified == 0
SeverityFatal == 21

\* what ShouldSample reads of a record, severity and body text, and what else a record
\* carries
SampleSeverities == {SeverityUnspecified, SeverityDebug, SeverityInfo, SeverityError, SeverityFatal}
SampleBodies == {"m1", "m2"}
SampleRecords ==
    {[severity |-> v, body |-> b, other |-> o] :
        v \in SampleSeverities, b \in SampleBodies, o \in {"o1", "o2"}}

\* an INFO record that the hash by body keeps and one that it drops
TwoSampleRecords ==
    {[severity |-> SeverityInfo, body |-> b, other |-> "o1"] : b \in SampleBodies}

\* the record of a worker that processes none, and of one without sampling
NoSample == [severity |-> SeverityUnspecified, body |-> "", other |-> ""]

\* content hashes: any fixed function of severity and body, here the ones of the form
\* (a * body + b * severity + c) mod 2
BodyCode(b) == IF b = "m2" THEN 1 ELSE 0
HashFunction(a, b, c) ==
    [x \in {[severity |-> v, body |-> t] : v \in SampleSeverities, t \in SampleBodies \cup {""}} |->
        (a * BodyCode(x.body) + b * x.severity + c) % 2]
HashFunctions == {HashFunction(a, b, c) : a \in 0..1, b \in 0..1, c \in 0..1}

\* -sample-rate values, and the rates a SamplingConfig is built with
SampleRates == {0, 1, 2, 3}

\* main: SetSamplingConfig is called only if *sampleRate > 1
MainSetsSampling(rate) == rate > 1

\* every entry can be serialized and the file system does not fail
NoFaults ==
    /\ badEntries = {}
    /\ ioFaults = FALSE

\* the flag defaults: -sample-rate 1, -sample-debug-only true, no configuration
NoSampling ==
    /\ samplingSet = FALSE
    /\ sampleRate = 1
    /\ sampleDebugOnly = TRUE
    /\ hash = HashFunction(0, 0, 0)

\* a configuration that is not nil although none was installed
samplingConfigNeverNil == [nil |-> FALSE, SampleRate |-> 2, SampleDebugOnly |-> sampleDebugOnly]

\* a configuration built without the -sample-debug-only flag
samplingConfigWithoutDebugOnly ==
    IF samplingSet
    THEN [nil |-> FALSE, SampleRate |-> sampleRate, SampleDebugOnly |-> FALSE]
    ELSE [nil |-> TRUE, SampleRate |-> 0, SampleDebugOnly |-> FALSE]

\* receiver.samplingConfig: nil until SetSamplingConfig
samplingConfig ==
    IF samplingSet
    THEN [nil |-> FALSE, SampleRate |-> sampleRate, SampleDebugOnly |-> sampleDebugOnly]
    ELSE [nil |-> TRUE, SampleRate |-> 0, SampleDebugOnly |-> FALSE]

\* transform.ShouldSample(lr, cfg)
ShouldSample(lr, cfg) ==
    IF cfg.nil \/ cfg.SampleRate <= 1 THEN TRUE
    ELSE IF lr.severity >= SeverityError THEN TRUE
    ELSE IF cfg.SampleDebugOnly /\ lr.severity >= SeverityInfo THEN TRUE
    ELSE hash[[severity |-> lr.severity, body |-> lr.body]] % cfg.SampleRate = 0

(* ------------------------------ transform ------------------------------ *)

\* DefaultConfig. A body is a sequence of pieces: "C" stands for the digits of a card
\* number, "S" for those of a social security number, "d" for one more digit, "x" for
\* a letter, " " for a space, and the two markers are pieces too. A pattern is the
\* piece it matches between two word boundaries. Lengths are counted in pieces and
\* MaxBodyLength stands for the 32768 bytes.
FieldRenames ==
    [oldKey \in {"application_name", "organization_name", "space_name", "instance_id",
                 "app_id", "organization_id", "space_id", "source_type", "log_type"} |->
        CASE oldKey = "application_name" -> "cf_app_name"
          [] oldKey = "organization_name" -> "cf_org_name"
          [] oldKey = "space_name" -> "cf_space_name"
          [] oldKey = "instance_id" -> "cf_instance_id"
          [] oldKey = "app_id" -> "cf_app_guid"
          [] oldKey = "organization_id" -> "cf_org_guid"
          [] oldKey = "space_id" -> "cf_space_guid"
          [] oldKey = "source_type" -> "cf_source_type"
          [] oldKey = "log_type" -> "cf_log_type"]
FieldsToDelete == <<"diego_cell_ip", "process_id", "source_id">>
PCIPatterns == <<"C", "S">>
DefaultConfig ==
    [FieldRenames |-> FieldRenames,
     FieldsToDelete |-> FieldsToDelete,
     MaxBodyLength |-> MaxBodyLength,
     PCIPatterns |-> PCIPatterns]

\* lr.Body: nil, a string value, or a value of another type
NilBody == [typ |-> "nil", str |-> <<>>]
IntBody == [typ |-> "int", str |-> <<>>]
StringBody(str) == [typ |-> "string", str |-> str]

\* body.GetStringValue(): "" unless the value is a string
GetStringValue(body) == IF body.typ = "string" THEN body.str ELSE <<>>

\* the index of the first attribute with the key, 0 if there is none
FirstIndex(attrs, key) ==
    IF \E i \in 1..Len(attrs) : attrs[i].key = key
    THEN CHOOSE i \in 1..Len(attrs) :
            /\ attrs[i].key = key
            /\ \A j \in 1..(i - 1) : attrs[j].key # key
    ELSE 0

\* a rename that adds the new key when the old one is missing
renameAttributeOrCreate(lr, oldKey, newKey) ==
    LET i == FirstIndex(lr.attrs, oldKey) IN
    IF i = 0 THEN [lr |-> [lr EXCEPT !.attrs = Append(@, [key |-> newKey, value |-> ""])],
                   ok |-> FALSE]
    ELSE [lr |-> [lr EXCEPT !.attrs[i].key = newKey], ok |-> TRUE]

\* renameAttribute: the key of the first attribute with oldKey becomes newKey
renameAttribute(lr, oldKey, newKey) ==
    LET i == FirstIndex(lr.attrs, oldKey) IN
    IF i = 0 THEN [lr |-> lr, ok |-> FALSE]
    ELSE [lr |-> [lr EXCEPT !.attrs[i].key = newKey], ok |-> TRUE]

\* a deletion of every attribute with the key
deleteAttributeAll(lr, key) ==
    LET IsOther(attr) == attr.key # key
    IN [lr |-> [lr EXCEPT !.attrs = SelectSeq(@, IsOther)],
        ok |-> FirstIndex(lr.attrs, key) # 0]

\* deleteAttribute: the first attribute with the key is replaced by the last one and
\* the list shortened
deleteAttribute(lr, key) ==
    LET i == FirstIndex(lr.attrs, key)
        n == Len(lr.attrs)
    IN IF i = 0 THEN [lr |-> lr, ok |-> FALSE]
       ELSE [lr |-> [lr EXCEPT !.attrs = SubSeq([lr.attrs EXCEPT ![i] = lr.attrs[n]], 1, n - 1)],
             ok |-> TRUE]

\* a piece that starts and ends with a word character (a digit or a letter); the
\* markers start and end with punctuation
IsWord(piece) == piece \in {"C", "S", "d", "x"}

\* the \b on both sides of the pattern: the start or the end of the string, or a
\* neighbour that is no word character
MatchesAt(pattern, str, i) ==
    /\ str[i] = pattern
    /\ i = 1 \/ ~IsWord(str[i - 1])
    /\ i = Len(str) \/ ~IsWord(str[i + 1])

\* pattern.MatchString(str) and pattern.ReplaceAllString(str, replacement)
PatternMatches(pattern, str) == \E i \in 1..Len(str) : MatchesAt(pattern, str, i)
ReplaceAllString(pattern, str, replacement) ==
    [i \in 1..Len(str) |-> IF MatchesAt(pattern, str, i) THEN replacement ELSE str[i]]

\* a redaction of the first match only
redactPatternFirstMatch(lr, pattern, replacement) ==
    LET str == GetStringValue(lr.body) IN
    IF lr.body.typ = "nil" THEN [lr |-> lr, ok |-> FALSE]
    ELSE IF str = <<>> THEN [lr |-> lr, ok |-> FALSE]
    ELSE IF ~PatternMatches(pattern, str) THEN [lr |-> lr, ok |-> FALSE]
    ELSE LET first == CHOOSE i \in 1..Len(str) :
                          /\ MatchesAt(pattern, str, i)
                          /\ \A j \in 1..(i - 1) : ~MatchesAt(pattern, str, j)
         IN [lr |-> [lr EXCEPT !.body = StringBody([str EXCEPT ![first] = replacement])],
             ok |-> TRUE]

\* redactPattern
redactPattern(lr, pattern, replacement) ==
    IF lr.body.typ = "nil" THEN [lr |-> lr, ok |-> FALSE]
    ELSE IF GetStringValue(lr.body) = <<>> THEN [lr |-> lr, ok |-> FALSE]
    ELSE IF ~PatternMatches(pattern, GetStringValue(lr.body)) THEN [lr |-> lr, ok |-> FALSE]
    ELSE [lr |-> [lr EXCEPT !.body = StringBody(ReplaceAllString(pattern,
                                            GetStringValue(lr.body), replacement))],
          ok |-> TRUE]

\* truncateBody
truncateBody(lr, maxLen) ==
    IF lr.body.typ = "nil" THEN [lr |-> lr, ok |-> FALSE]
    ELSE IF Len(GetStringValue(lr.body)) <= maxLen THEN [lr |-> lr, ok |-> FALSE]
    ELSE [lr |-> [lr EXCEPT !.body = StringBody(Append(SubSeq(GetStringValue(lr.body), 1, maxLen),
                                                      "...[TRUNCATED]"))],
          ok |-> TRUE]

\* the action strings, by the pieces they are concatenated from
RenamedAction(oldKey, newKey) == <<"Renamed: ", oldKey, " -> ", newKey>>
DeletedAction(key) == <<"Deleted: ", key>>
RedactedAction(i) == <<"Redacted PCI pattern #", i>>
TruncatedAction == <<"Truncated body to max length">>
NoAction == <<"No transformations applied">>

\* records handed to Apply: attribute lists with old keys, new keys, keys to delete
\* and other keys, some of them twice, and bodies of every type up to one piece more
\* than MaxBodyLength, one of them with card digits that end at MaxBodyLength and a
\* digit after them
TransformAttributes ==
    { <<>>,
      <<[key |-> "application_name", value |-> "v1"]>>,
      <<[key |-> "application_name", value |-> "v1"], [key |-> "space_name", value |-> "v2"]>>,
      <<[key |-> "application_name", value |-> "v1"], [key |-> "application_name", value |-> "v2"]>>,
      <<[key |-> "unrelated_field", value |-> "v1"]>>,
      <<[key |-> "process_id", value |-> "v1"], [key |-> "unrelated_field", value |-> "v2"],
        [key |-> "log_type", value |-> "v1"]>>,
      <<[key |-> "cf_app_name", value |-> "v1"], [key |-> "application_name", value |-> "v2"]>>,
      <<[key |-> "source_id", value |-> "v1"], [key |-> "source_id", value |-> "v2"]>> }
TransformBodies ==
    { NilBody, IntBody, StringBody(<<>>), StringBody(<<"x">>), StringBody(<<"C", " ", "C">>),
      StringBody(<<"S">>),
      StringBody([i \in 1..(MaxBodyLength + 1) |->
                     IF i = 1 THEN "C" ELSE IF i = 2 THEN " " ELSE "x"]),
      StringBody([i \in 1..(MaxBodyLength + 1) |->
                     IF i = MaxBodyLength THEN "C"
                     ELSE IF i = MaxBodyLength + 1 THEN "d" ELSE " "]) }
TransformRecords ==
    {[attrs |-> a, body |-> StringBody(<<"x">>)] : a \in TransformAttributes}
    \cup {[attrs |-> <<>>, body |-> b] : b \in TransformBodies}
    \cup {[attrs |-> <<[key |-> "process_id", value |-> "v1"],
                       [key |-> "space_name", value |-> "v2"]>>,
           body |-> b] : b \in TransformBodies \ {NilBody, IntBody, StringBody(<<>>)}}

\* before Apply was called
NoLogRecord == [attrs |-> <<>>, body |-> NilBody]

\* the counters at start, and the loads of a health request that has loaded nothing
NoStats == [received |-> 0, transformed |-> 0, dropped |-> 0, filtered |-> 0]
NoObs == [received |-> 0, transformed |-> 0, dropped |-> 0]

(* ------------------------------ initial -------------------------------- *)

\* the state main builds before it waits for the signal; changes is the number of
\* changes the environment will make to the allowlist file, MaxEntries - firstId + 1
\* the number of records the front ends will receive
InitWith(writer, allow, changes, firstId) ==
    /\ jsonWriterSet = writer
    /\ allowlistSet = allow
    /\ buffer = <<>>
    /\ file = <<>>
    /\ rotated = <<>>
    /\ handle = IF writer THEN "open" ELSE "closed"
    /\ mu = {}
    /\ stop = FALSE
    /\ done = FALSE
    /\ pc = [p \in Procs |->
               IF p \in Workers THEN "idle"
               ELSE IF p = Flusher THEN (IF writer THEN "f_select" ELSE "f_none")
               ELSE IF p = Watcher THEN (IF allow THEN "wt_select" ELSE "wt_none")
               ELSE IF p = Observer THEN "o_idle"
               ELSE "m_wait"]
    /\ wEntry = [w \in Workers |-> 0]
    /\ nextId = firstId
    /\ grpcServing = TRUE
    /\ httpServing = TRUE
    /\ stopWatcher = FALSE
    /\ appended = <<>>
    /\ preClose = {}
    /\ alReadable = TRUE
    /\ events = <<>>
    /\ changesLeft = changes
    /\ newList = {}
    /\ rwReaders = {}
    /\ rwPending = FALSE
    /\ wRec = [w \in Workers |-> NoRecord]
    /\ wEmpty = [w \in Workers |-> FALSE]
    /\ wAllowed = [w \in Workers |-> TRUE]
    /\ wSeen = [w \in Workers |-> {}]
    /\ rtRecord = NoRouteRecord
    /\ rtResult = NoRouteResult
    /\ wLr = [w \in Workers |-> NoSample]
    /\ trIn = NoLogRecord
    /\ trLr = NoLogRecord
    /\ trActions = <<>>
    /\ trTodo = {}
    /\ trIdx = 0
    /\ trPc = "idle"
    /\ trChanged = <<>>
    /\ trPrev = [in |-> NoLogRecord, lr |-> NoLogRecord, actions |-> <<>>]
    /\ stats = NoStats
    /\ obs = NoObs
    /\ wBatch = [w \in Workers |-> <<>>]
    /\ batchIds = {}
    /\ preShutdown = {}

\* main with -output-file and -allowlist: NewJSONWriter(..., 100*1024*1024), LoadFromFile
Init ==
    /\ InitWith(TRUE, TRUE, 1, MaxEntries)
    /\ NoFaults
    /\ NoSampling
    /\ rules = DefaultRules
    /\ router = DefaultRouter
    /\ bufferSize \in BufferSizes
    /\ maxFileSize = 100
    /\ alFile \in FileContents
    /\ apps = LoadFromFile(alFile)

\* the writer alone, for every buffer size and rotation threshold
InitWriter ==
    /\ InitWith(TRUE, FALSE, 0, 1)
    /\ NoFaults
    /\ NoSampling
    /\ rules = DefaultRules
    /\ router = DefaultRouter
    /\ bufferSize \in BufferSizes
    /\ maxFileSize \in MaxFileSizes
    /\ alFile = <<>>
    /\ apps = {}

\* main with -allowlist and -sample-rate and without -output-file; the allowlist
\* file does not change
InitReceiver ==
    /\ InitWith(FALSE, TRUE, 0, MaxEntries - 1)
    /\ NoFaults
    /\ samplingSet = TRUE
    /\ sampleRate = 2
    /\ sampleDebugOnly = FALSE
    /\ hash = HashFunction(1, 0, 0)
    /\ rules = DefaultRules
    /\ router = DefaultRouter
    /\ bufferSize = 0
    /\ maxFileSize = 100
    /\ alFile = <<<<"a">>, <<"A", " ">>>>
    /\ apps = LoadFromFile(alFile)

\* the writer alone with two requests, for the behaviours of the periodic flush
InitFlushLive ==
    /\ InitWith(TRUE, FALSE, 0, MaxEntries - 1)
    /\ NoFaults
    /\ NoSampling
    /\ rules = DefaultRules
    /\ router = DefaultRouter
    /\ bufferSize \in BufferSizes
    /\ maxFileSize \in MaxFileSizes
    /\ alFile = <<>>
    /\ apps = {}

\* a router built from any of the rule sets
InitRoute ==
    /\ InitWith(FALSE, FALSE, 0, 1)
    /\ NoFaults
    /\ NoSampling
    /\ rules \in RuleSets
    /\ router \in NewRouter(rules)
    /\ bufferSize = 0
    /\ maxFileSize = 100
    /\ alFile = <<>>
    /\ apps = {}

\* the pipeline up to the sampling decision: no configuration as main leaves it for
\* a rate of 1 or less, or a configuration of any rate that main or another caller
\* of SetSamplingConfig installed
InitSample ==
    /\ InitWith(FALSE, FALSE, 0, MaxEntries - 1)
    /\ NoFaults
    /\ sampleRate \in SampleRates
    /\ sampleDebugOnly \in BOOLEAN
    /\ samplingSet \in {MainSetsSampling(sampleRate), TRUE}
    /\ hash \in (IF samplingSet THEN HashFunctions ELSE {HashFunction(0, 0, 0)})
    /\ rules = DefaultRules
    /\ router = DefaultRouter
    /\ bufferSize = 0
    /\ maxFileSize = 100
    /\ alFile = <<>>
    /\ apps = {}

\* the writer with entries json.Marshal fails for, and with rotations that fail
InitFaults ==
    /\ InitWith(TRUE, FALSE, 0, 1)
    /\ badEntries \in SUBSET (1..2)
    /\ ioFaults \in BOOLEAN
    /\ NoSampling
    /\ rules = DefaultRules
    /\ router = DefaultRouter
    /\ bufferSize \in BufferSizes \ {0}
    /\ maxFileSize \in MaxFileSizes
    /\ alFile = <<>>
    /\ apps = {}

\* the transformation with its default configuration
InitTransform ==
    /\ InitWith(FALSE, FALSE, 0, 1)
    /\ NoFaults
    /\ NoSampling
    /\ rules = DefaultRules
    /\ router = DefaultRouter
    /\ bufferSize = 0
    /\ maxFileSize = 100
    /\ alFile = <<>>
    /\ apps = {}

\* main with -output-file alone, for the buffer sizes that make a Write flush
InitBatch ==
    /\ InitWith(TRUE, FALSE, 0, 1)
    /\ NoFaults
    /\ NoSampling
    /\ rules = DefaultRules
    /\ router = DefaultRouter
    /\ bufferSize \in BufferSizes \ {0}
    /\ maxFileSize = 100
    /\ alFile = <<>>
    /\ apps = {}

\* main with -sample-rate 2, -allowlist and -output-file: the whole pipeline of a
\* record, from the front end into the writer
InitPipeline ==
    /\ InitWith(TRUE, TRUE, 0, 1)
    /\ NoFaults
    /\ samplingSet = TRUE
    /\ sampleRate = 2
    /\ sampleDebugOnly = FALSE
    /\ hash = HashFunction(1, 0, 0)
    /\ rules = DefaultRules
    /\ router = DefaultRouter
    /\ bufferSize = MaxBufferSize
    /\ maxFileSize = 100
    /\ alFile = <<<<"a">>>>
    /\ apps = LoadFromFile(alFile)

\* the allowlist with one request, for the behaviours of the watcher
InitAllowLive ==
    /\ InitWith(FALSE, TRUE, MaxChanges, MaxEntries)
    /\ NoFaults
    /\ NoSampling
    /\ rules = DefaultRules
    /\ router = DefaultRouter
    /\ bufferSize = 0
    /\ maxFileSize = 100
    /\ alFile \in FileContents
    /\ apps = LoadFromFile(alFile)

\* an allowlist built by NewAllowlist from a slice of names and then watched
InitIdentifier ==
    /\ InitWith(FALSE, TRUE, MaxChanges, MaxEntries)
    /\ NoFaults
    /\ NoSampling
    /\ rules = DefaultRules
    /\ router = DefaultRouter
    /\ bufferSize = 0
    /\ maxFileSize = 100
    /\ alFile \in FileContents
    /\ apps \in {NewAllowlist(names) : names \in NameLists}

\* the allowlist alone
InitAllow ==
    /\ InitWith(FALSE, TRUE, MaxChanges, MaxEntries)
    /\ NoFaults
    /\ NoSampling
    /\ rules = DefaultRules
    /\ router = DefaultRouter
    /\ bufferSize = 0
    /\ maxFileSize = 100
    /\ alFile \in FileContents
    /\ apps = LoadFromFile(alFile)

\* the process has not exited
Running == pc[MainProc] # "m_exit"

\* where flushLocked returns to, per caller
FlushReturn(p) == IF p \in Workers THEN "w_unlock"
                  ELSE IF p = Flusher THEN "f_unlock" ELSE "c_close"

\* a Lock that is granted although the mutex is held
LockWithoutWaiting(p, next) ==
    /\ mu' = mu \cup {p}
    /\ pc' = [pc EXCEPT ![p] = next]

\* w.mu.Lock()
Lock(p, next) ==
    /\ mu = {}
    /\ mu' = {p}
    /\ pc' = [pc EXCEPT ![p] = next]

\* w.mu.Unlock()
Unlock(p, next) ==
    /\ mu' = mu \ {p}
    /\ pc' = [pc EXCEPT ![p] = next]

(* ----------------------------- front ends ------------------------------ *)

\* the records a batch can carry: without a sampling configuration or an allowlist
\* the content that stage reads does not matter
InputRecords(recs, lrs) ==
    {[lr |-> l, rec |-> r] : l \in (IF samplingSet THEN lrs ELSE {NoSample}),
                             r \in (IF allowlistSet THEN recs ELSE {NoRecord})}

\* where a worker continues when processLogRecord has returned: the next record of
\* the batch, or the response
AfterRecord(w) == IF wBatch[w] # <<>> THEN "h_next" ELSE "idle"

\* the batch is finished when its last record is
Finished(w) == IF wBatch[w] = <<>> THEN preShutdown \ {w} ELSE preShutdown

\* a pipeline that drops the records ShouldSample keeps
ReceiveRecordDropsKept(w, batch) ==
    /\ stats' = [stats EXCEPT !.received = @ + 1]
    /\ wBatch' = [wBatch EXCEPT ![w] = Tail(batch)]
    /\ wRec' = [wRec EXCEPT ![w] = Head(batch).rec]
    /\ wLr' = [wLr EXCEPT ![w] = Head(batch).lr]
    /\ wEntry' = [wEntry EXCEPT ![w] = Head(batch).id]
    /\ pc' = [pc EXCEPT ![w] = IF ShouldSample(Head(batch).lr, samplingConfig) THEN "p_drop"
                               ELSE IF allowlistSet THEN "a_rlock" ELSE "p_count"]

\* a pipeline that keeps one record in SampleRate by counting the records received
ReceiveRecordSamplesByCount(w, batch) ==
    /\ stats' = [stats EXCEPT !.received = @ + 1]
    /\ wBatch' = [wBatch EXCEPT ![w] = Tail(batch)]
    /\ wRec' = [wRec EXCEPT ![w] = Head(batch).rec]
    /\ wLr' = [wLr EXCEPT ![w] = Head(batch).lr]
    /\ wEntry' = [wEntry EXCEPT ![w] = Head(batch).id]
    /\ pc' = [pc EXCEPT ![w] = IF samplingSet /\ sampleRate > 1 /\ stats.received % sampleRate # 0
                               THEN "p_drop"
                               ELSE IF allowlistSet THEN "a_rlock" ELSE "p_count"]

\* a loop that walks the records of the batch from the last to the first
ReceiveRecordFromEnd(w, batch) ==
    /\ stats' = [stats EXCEPT !.received = @ + 1]
    /\ wBatch' = [wBatch EXCEPT ![w] = SubSeq(batch, 1, Len(batch) - 1)]
    /\ wRec' = [wRec EXCEPT ![w] = batch[Len(batch)].rec]
    /\ wLr' = [wLr EXCEPT ![w] = batch[Len(batch)].lr]
    /\ wEntry' = [wEntry EXCEPT ![w] = batch[Len(batch)].id]
    /\ pc' = [pc EXCEPT ![w] = IF ~ShouldSample(batch[Len(batch)].lr, samplingConfig) THEN "p_drop"
                               ELSE IF allowlistSet THEN "a_rlock" ELSE "p_count"]

\* processLogRecord for the first record of batch, up to the sampling decision
processLogRecord(w, batch) ==
    /\ wBatch' = [wBatch EXCEPT ![w] = Tail(batch)]
    /\ wRec' = [wRec EXCEPT ![w] = Head(batch).rec]
    /\ wLr' = [wLr EXCEPT ![w] = Head(batch).lr]
    /\ wEntry' = [wEntry EXCEPT ![w] = Head(batch).id]
    /\ pc' = [pc EXCEPT ![w] = IF ~ShouldSample(Head(batch).lr, samplingConfig) THEN "p_drop"
                               ELSE IF allowlistSet THEN "a_rlock" ELSE "p_count"]

\* the loop body of Export: stats.LogsReceived.Add(1), then processLogRecord
ExportRecord(w, batch) ==
    /\ stats' = [stats EXCEPT !.received = @ + 1]
    /\ processLogRecord(w, batch)

\* a handler that hands the record to the pipeline without counting it
handleLogsRecordUncounted(w, batch) ==
    /\ stats' = stats
    /\ processLogRecord(w, batch)

\* the loop body of handleLogs: stats.LogsReceived.Add(1), then processLogRecord
handleLogsRecord(w, batch) ==
    /\ stats' = [stats EXCEPT !.received = @ + 1]
    /\ processLogRecord(w, batch)

\* the loop body of the front end the worker serves, for the first record of batch
ReceiveRecord(w, batch) ==
    IF IsGRPC(w) THEN ExportRecord(w, batch) ELSE handleLogsRecord(w, batch)

\* Export / handleLogs take a decodable batch of at most n records drawn from recs
\* and receive its first record
StartRequest(w, n, recs, lrs) ==
    /\ Running
    /\ pc[w] = "idle"
    /\ IF IsGRPC(w) THEN grpcServing ELSE httpServing
    /\ \E k \in 1..n :
          /\ nextId + k - 1 <= MaxEntries
          /\ nextId' = nextId + k
          /\ batchIds' = batchIds \cup {<<nextId, nextId + k - 1>>}
          /\ \E items \in [1..k -> InputRecords(recs, lrs)] :
                ReceiveRecord(w, [i \in 1..k |-> [id |-> nextId + i - 1,
                                                  lr |-> items[i].lr,
                                                  rec |-> items[i].rec]])
    /\ preShutdown' = IF pc[MainProc] = "m_wait" THEN preShutdown \cup {w}
                      ELSE preShutdown \ {w}
    /\ UNCHANGED <<cfgVars, routeVars, trVars, obs, buffer, fileVars, mu, chanVars, srvVars,
                   histVars, alVars, wEmpty, wAllowed, wSeen>>

\* a handler that counts a record before it finds the body undecodable
handleLogsCountsUndecodable(w) ==
    /\ Running
    /\ pc[w] = "idle"
    /\ ~IsGRPC(w)
    /\ httpServing
    /\ stats' = [stats EXCEPT !.received = @ + 1]
    /\ pc' = [pc EXCEPT ![w] = "h_bad"]
    /\ UNCHANGED <<cfgVars, routeVars, trVars, smpVars, obs, wBatch, batchIds, preShutdown, buffer, fileVars, mu,
                   chanVars, srvVars, histVars, alVars, reqVars>>

\* handleLogs: the body cannot be read or proto.Unmarshal fails
handleLogsUndecodable(w) ==
    /\ Running
    /\ pc[w] = "idle"
    /\ ~IsGRPC(w)
    /\ httpServing
    /\ pc' = [pc EXCEPT ![w] = "h_bad"]
    /\ UNCHANGED <<cfgVars, routeVars, trVars, smpVars, rcvVars, buffer, fileVars, mu, chanVars, srvVars, histVars,
                   alVars, reqVars>>

\* handleLogs: http.Error(w, ..., http.StatusBadRequest); return
handleLogsBadRequest(w) ==
    /\ Running
    /\ pc[w] = "h_bad"
    /\ pc' = [pc EXCEPT ![w] = "idle"]
    /\ UNCHANGED <<cfgVars, routeVars, trVars, smpVars, rcvVars, buffer, fileVars, mu, chanVars, srvVars, histVars,
                   alVars, reqVars>>

\* the loop of Export / handleLogs goes on to the next record of the batch
Receive(w) ==
    /\ Running
    /\ pc[w] = "h_next"
    /\ ReceiveRecord(w, wBatch[w])
    /\ UNCHANGED <<cfgVars, routeVars, trVars, obs, batchIds, preShutdown, buffer, fileVars, mu, chanVars,
                   srvVars, histVars, alVars, nextId, wEmpty, wAllowed, wSeen>>

\* a sampling stage that counts the record as dropped and goes on to the allowlist
DropWithoutReturn(w) ==
    /\ Running
    /\ pc[w] = "p_drop"
    /\ stats' = [stats EXCEPT !.dropped = @ + 1]
    /\ pc' = [pc EXCEPT ![w] = IF allowlistSet THEN "a_rlock" ELSE "p_count"]
    /\ UNCHANGED <<cfgVars, routeVars, trVars, smpVars, obs, wBatch, batchIds, preShutdown, buffer,
                   fileVars, mu, chanVars, srvVars, histVars, alVars, reqVars>>

\* processLogRecord: the record was sampled out: stats.LogsDropped.Add(1); return
Drop(w) ==
    /\ Running
    /\ pc[w] = "p_drop"
    /\ stats' = [stats EXCEPT !.dropped = @ + 1]
    /\ pc' = [pc EXCEPT ![w] = AfterRecord(w)]
    /\ preShutdown' = Finished(w)
    /\ wEntry' = [wEntry EXCEPT ![w] = 0]
    /\ wRec' = [wRec EXCEPT ![w] = NoRecord]
    /\ wLr' = [wLr EXCEPT ![w] = NoSample]
    /\ UNCHANGED <<cfgVars, routeVars, trVars, obs, wBatch, batchIds, buffer, fileVars, mu,
                   chanVars, srvVars, histVars, alVars, nextId, wEmpty, wAllowed, wSeen>>

\* processLogRecord: transform.Apply, router.Route, stats.LogsTransformed.Add(1);
\* the entry goes to jsonWriter.Write when a writer is configured
Transform(w) ==
    /\ Running
    /\ pc[w] = "p_count"
    /\ stats' = [stats EXCEPT !.transformed = @ + 1]
    /\ IF jsonWriterSet
       THEN /\ pc' = [pc EXCEPT ![w] = "w_lock"]
            /\ UNCHANGED <<preShutdown, wEntry>>
       ELSE /\ pc' = [pc EXCEPT ![w] = AfterRecord(w)]
            /\ preShutdown' = Finished(w)
            /\ wEntry' = [wEntry EXCEPT ![w] = 0]
    /\ wRec' = [wRec EXCEPT ![w] = NoRecord]
    /\ wLr' = [wLr EXCEPT ![w] = NoSample]
    /\ UNCHANGED <<cfgVars, routeVars, trVars, obs, wBatch, batchIds, buffer, fileVars, mu,
                   chanVars, srvVars, histVars, alVars, nextId, wEmpty, wAllowed, wSeen>>

\* processLogRecord: index, ruleName := router.Route(transformed)
ApplyRoute ==
    /\ \E lr \in RouteRecords :
          /\ rtRecord' = lr
          /\ rtResult' = Route(router, lr)
    /\ UNCHANGED <<cfgVars, trVars, smpVars, rcvVars, buffer, fileVars, mu, chanVars, pc, srvVars,
                   histVars, alVars, reqVars>>

(* -------------------------------- Apply -------------------------------- *)

\* the truncation before the redaction
StepsTruncateFirst == <<"rename", "delete", "truncate", "redact">>

\* the statements of ApplyWithConfig in their order
Steps == <<"rename", "delete", "redact", "truncate">>

\* the statement after a step, the return after the last one
StepAfter(step) ==
    LET i == CHOOSE j \in 1..Len(Steps) : Steps[j] = step
    IN IF i = Len(Steps) THEN "return" ELSE Steps[i + 1]

\* one more step of Apply changed the record
Changed(lr, step) == IF lr # trLr THEN Append(trChanged, step) ELSE trChanged

\* Apply(lr): ApplyWithConfig(lr, defaultConfig) starts with no actions; the record is
\* a new one or the one the Apply before returned
ApplyBegin ==
    /\ trPc \in {"idle", "done"}
    /\ \E lr \in TransformRecords \cup (IF trPc = "done" THEN {trLr} ELSE {}) :
          /\ trIn' = lr
          /\ trLr' = lr
    /\ trActions' = <<>>
    /\ trTodo' = DOMAIN DefaultConfig.FieldRenames
    /\ trIdx' = 1
    /\ trPc' = Steps[1]
    /\ trChanged' = <<>>
    /\ trPrev' = IF trPc = "done" THEN [in |-> trIn, lr |-> trLr, actions |-> trActions]
                 ELSE trPrev
    /\ UNCHANGED <<cfgVars, routeVars, smpVars, rcvVars, buffer, fileVars, mu, chanVars, pc, srvVars,
                   histVars, alVars, reqVars>>

\* 1. Rename fields: the range over the map visits the pairs in any order
ApplyRename ==
    /\ trPc = "rename"
    /\ \E oldKey \in trTodo :
          LET r == renameAttribute(trLr, oldKey, DefaultConfig.FieldRenames[oldKey]) IN
          /\ trLr' = r.lr
          /\ trActions' = IF r.ok
                          THEN Append(trActions,
                                      RenamedAction(oldKey, DefaultConfig.FieldRenames[oldKey]))
                          ELSE trActions
          /\ trChanged' = Changed(r.lr, <<"rename", oldKey>>)
          /\ trTodo' = trTodo \ {oldKey}
          /\ trPc' = IF trTodo \ {oldKey} = {} THEN StepAfter("rename") ELSE "rename"
          /\ trIdx' = 1
    /\ UNCHANGED <<cfgVars, routeVars, smpVars, rcvVars, buffer, fileVars, mu, chanVars, pc, srvVars,
                   histVars, alVars, reqVars, trIn, trPrev>>

\* 2. Delete fields, one key of the list at a time
ApplyDelete ==
    /\ trPc = "delete"
    /\ LET key == DefaultConfig.FieldsToDelete[trIdx]
           r == deleteAttribute(trLr, key)
       IN /\ trLr' = r.lr
          /\ trActions' = IF r.ok THEN Append(trActions, DeletedAction(key)) ELSE trActions
          /\ trChanged' = Changed(r.lr, <<"delete", key>>)
    /\ trPc' = IF trIdx = Len(DefaultConfig.FieldsToDelete) THEN StepAfter("delete") ELSE "delete"
    /\ trIdx' = IF trIdx = Len(DefaultConfig.FieldsToDelete) THEN 1 ELSE trIdx + 1
    /\ UNCHANGED <<cfgVars, routeVars, smpVars, rcvVars, buffer, fileVars, mu, chanVars, pc, srvVars,
                   histVars, alVars, reqVars, trIn, trTodo, trPrev>>

\* 3. PCI redaction, one pattern of the list at a time
ApplyRedact ==
    /\ trPc = "redact"
    /\ LET r == redactPattern(trLr, DefaultConfig.PCIPatterns[trIdx], "[PCI-REDACTED]")
       IN /\ trLr' = r.lr
          /\ trActions' = IF r.ok THEN Append(trActions, RedactedAction(trIdx)) ELSE trActions
          /\ trChanged' = Changed(r.lr, <<"redact", trIdx>>)
    /\ trPc' = IF trIdx = Len(DefaultConfig.PCIPatterns) THEN StepAfter("redact") ELSE "redact"
    /\ trIdx' = IF trIdx = Len(DefaultConfig.PCIPatterns) THEN 1 ELSE trIdx + 1
    /\ UNCHANGED <<cfgVars, routeVars, smpVars, rcvVars, buffer, fileVars, mu, chanVars, pc, srvVars,
                   histVars, alVars, reqVars, trIn, trTodo, trPrev>>

\* 4. Truncate body
ApplyTruncate ==
    /\ trPc = "truncate"
    /\ LET r == IF DefaultConfig.MaxBodyLength > 0
                THEN truncateBody(trLr, DefaultConfig.MaxBodyLength)
                ELSE [lr |-> trLr, ok |-> FALSE]
       IN /\ trLr' = r.lr
          /\ trActions' = IF r.ok THEN Append(trActions, TruncatedAction) ELSE trActions
          /\ trChanged' = Changed(r.lr, <<"truncate">>)
    /\ trPc' = StepAfter("truncate")
    /\ UNCHANGED <<cfgVars, routeVars, smpVars, rcvVars, buffer, fileVars, mu, chanVars, pc, srvVars,
                   histVars, alVars, reqVars, trIn, trTodo, trIdx, trPrev>>

\* the sentinel when there is no action, and the return
ApplyReturn ==
    /\ trPc = "return"
    /\ trActions' = IF Len(trActions) = 0 THEN <<NoAction>> ELSE trActions
    /\ trPc' = "done"
    /\ UNCHANGED <<cfgVars, routeVars, smpVars, rcvVars, buffer, fileVars, mu, chanVars, pc, srvVars,
                   histVars, alVars, reqVars, trIn, trLr, trTodo, trIdx, trChanged, trPrev>>

(* ------------------------------ handleHealth --------------------------- *)

\* handleHealth: stats.LogsReceived.Load(), the first argument of Fprintf
handleHealthReceived ==
    /\ Running
    /\ pc[Observer] = "o_idle"
    /\ httpServing
    /\ obs' = [obs EXCEPT !.received = stats.received]
    /\ pc' = [pc EXCEPT ![Observer] = "o_transformed"]
    /\ UNCHANGED <<cfgVars, routeVars, trVars, smpVars, stats, wBatch, batchIds, preShutdown, buffer, fileVars, mu,
                   chanVars, srvVars, histVars, alVars, reqVars>>

\* handleHealth: stats.LogsTransformed.Load()
handleHealthTransformed ==
    /\ Running
    /\ pc[Observer] = "o_transformed"
    /\ obs' = [obs EXCEPT !.transformed = stats.transformed]
    /\ pc' = [pc EXCEPT ![Observer] = "o_dropped"]
    /\ UNCHANGED <<cfgVars, routeVars, trVars, smpVars, stats, wBatch, batchIds, preShutdown, buffer, fileVars, mu,
                   chanVars, srvVars, histVars, alVars, reqVars>>

\* handleHealth: stats.LogsDropped.Load(); the three values go into the response
handleHealthDropped ==
    /\ Running
    /\ pc[Observer] = "o_dropped"
    /\ obs' = [obs EXCEPT !.dropped = stats.dropped]
    /\ pc' = [pc EXCEPT ![Observer] = "o_report"]
    /\ UNCHANGED <<cfgVars, routeVars, trVars, smpVars, stats, wBatch, batchIds, preShutdown, buffer, fileVars, mu,
                   chanVars, srvVars, histVars, alVars, reqVars>>

\* handleHealth returns; the next health request starts from nothing
handleHealthReturn ==
    /\ Running
    /\ pc[Observer] = "o_report"
    /\ obs' = NoObs
    /\ pc' = [pc EXCEPT ![Observer] = "o_idle"]
    /\ UNCHANGED <<cfgVars, routeVars, trVars, smpVars, stats, wBatch, batchIds, preShutdown, buffer, fileVars, mu,
                   chanVars, srvVars, histVars, alVars, reqVars>>

(* ------------------------------ IsAllowed ------------------------------ *)

\* al.mu.RLock() is granted
CanRLock == ~rwPending

\* IsAllowed: al.mu.RLock(); len(al.apps) == 0
IsAllowedRLock(w) ==
    /\ Running
    /\ pc[w] = "a_rlock"
    /\ CanRLock
    /\ rwReaders' = rwReaders \cup {w}
    /\ wEmpty' = [wEmpty EXCEPT ![w] = (apps = {})]
    /\ wSeen' = [wSeen EXCEPT ![w] = apps]
    /\ pc' = [pc EXCEPT ![w] = "a_return"]
    /\ UNCHANGED <<cfgVars, routeVars, trVars, smpVars, rcvVars, buffer, fileVars, mu, chanVars, srvVars, histVars,
                   apps, alFile, alReadable, events, changesLeft, newList, rwPending,
                   wEntry, nextId, wRec, wAllowed>>

\* IsAllowed: return true for the empty list, else al.apps[strings.ToLower(appName)];
\* deferred al.mu.RUnlock()
IsAllowedReturn(w) ==
    /\ Running
    /\ pc[w] = "a_return"
    /\ wAllowed' = [wAllowed EXCEPT ![w] =
                      IF wEmpty[w] THEN TRUE ELSE ToLower(AppName(wRec[w])) \in apps]
    /\ rwReaders' = rwReaders \ {w}
    /\ pc' = [pc EXCEPT ![w] = "a_done"]
    /\ UNCHANGED <<cfgVars, routeVars, trVars, smpVars, rcvVars, buffer, fileVars, mu, chanVars, srvVars, histVars,
                   apps, alFile, alReadable, events, changesLeft, newList, rwPending,
                   wEntry, nextId, wRec, wEmpty, wSeen>>

\* a filter that counts the record and goes on to transform it
FilterWithoutReturn(w) ==
    /\ Running
    /\ pc[w] = "a_done"
    /\ stats' = IF wAllowed[w] THEN stats ELSE [stats EXCEPT !.filtered = @ + 1]
    /\ pc' = [pc EXCEPT ![w] = "p_count"]
    /\ wRec' = [wRec EXCEPT ![w] = NoRecord]
    /\ wEmpty' = [wEmpty EXCEPT ![w] = FALSE]
    /\ wAllowed' = [wAllowed EXCEPT ![w] = TRUE]
    /\ wSeen' = [wSeen EXCEPT ![w] = {}]
    /\ UNCHANGED <<cfgVars, routeVars, trVars, obs, wBatch, batchIds, buffer, fileVars, mu, chanVars, srvVars,
                   histVars, alVars, nextId, preShutdown, wEntry, wLr>>

\* processLogRecord: a record that is not allowed is counted as filtered
\* (stats.LogsFiltered.Add(1)) and processLogRecord returns; an allowed one goes on
Filter(w) ==
    /\ Running
    /\ pc[w] = "a_done"
    /\ IF wAllowed[w]
       THEN /\ pc' = [pc EXCEPT ![w] = "p_count"]
            /\ UNCHANGED <<stats, preShutdown, wEntry, wLr>>
       ELSE /\ stats' = [stats EXCEPT !.filtered = @ + 1]
            /\ pc' = [pc EXCEPT ![w] = AfterRecord(w)]
            /\ preShutdown' = Finished(w)
            /\ wEntry' = [wEntry EXCEPT ![w] = 0]
            /\ wLr' = [wLr EXCEPT ![w] = NoSample]
    /\ wRec' = [wRec EXCEPT ![w] = NoRecord]
    /\ wEmpty' = [wEmpty EXCEPT ![w] = FALSE]
    /\ wAllowed' = [wAllowed EXCEPT ![w] = TRUE]
    /\ wSeen' = [wSeen EXCEPT ![w] = {}]
    /\ UNCHANGED <<cfgVars, routeVars, trVars, obs, wBatch, batchIds, buffer, fileVars, mu, chanVars, srvVars,
                   histVars, alVars, nextId>>

(* ------------------------- WatchFile and reload ------------------------ *)

\* case <-stop: return
WatchFileStop ==
    /\ Running
    /\ pc[Watcher] = "wt_select"
    /\ stopWatcher
    /\ pc' = [pc EXCEPT ![Watcher] = "wt_stopped"]
    /\ UNCHANGED <<cfgVars, routeVars, trVars, smpVars, rcvVars, buffer, fileVars, mu, chanVars, srvVars, histVars, alVars, reqVars>>

\* a watcher that reloads on Create only
WatchFileEventIgnoresWrite ==
    /\ Running
    /\ pc[Watcher] = "wt_select"
    /\ events # <<>>
    /\ events' = Tail(events)
    /\ pc' = [pc EXCEPT ![Watcher] =
                IF Head(events) \in {"create"} THEN "wt_load" ELSE "wt_select"]
    /\ UNCHANGED <<cfgVars, routeVars, trVars, smpVars, rcvVars, buffer, fileVars, mu, chanVars, srvVars, histVars,
                   apps, alFile, alReadable, changesLeft, newList, rwReaders, rwPending, reqVars>>

\* case event := <-watcher.Events: reload on Write or Create
WatchFileEvent ==
    /\ Running
    /\ pc[Watcher] = "wt_select"
    /\ events # <<>>
    /\ events' = Tail(events)
    /\ pc' = [pc EXCEPT ![Watcher] =
                IF Head(events) \in {"write", "create"} THEN "wt_load" ELSE "wt_select"]
    /\ UNCHANGED <<cfgVars, routeVars, trVars, smpVars, rcvVars, buffer, fileVars, mu, chanVars, srvVars, histVars,
                   apps, alFile, alReadable, changesLeft, newList, rwReaders, rwPending, reqVars>>

\* a reload that ignores the error and installs the empty list it got
reloadLoadIgnoresError ==
    /\ Running
    /\ pc[Watcher] = "wt_load"
    /\ newList' = IF alReadable THEN LoadFromFile(alFile) ELSE {}
    /\ pc' = [pc EXCEPT ![Watcher] = "wt_lock"]
    /\ UNCHANGED <<cfgVars, routeVars, trVars, smpVars, rcvVars, buffer, fileVars, mu, chanVars, srvVars, histVars,
                   apps, alFile, alReadable, events, changesLeft, rwReaders, rwPending, reqVars>>

\* reload: newList, err := LoadFromFile(path); on error keep the existing list
reloadLoad ==
    /\ Running
    /\ pc[Watcher] = "wt_load"
    /\ IF alReadable
       THEN /\ newList' = LoadFromFile(alFile)
            /\ pc' = [pc EXCEPT ![Watcher] = "wt_lock"]
       ELSE /\ newList' = newList
            /\ pc' = [pc EXCEPT ![Watcher] = "wt_select"]
    /\ UNCHANGED <<cfgVars, routeVars, trVars, smpVars, rcvVars, buffer, fileVars, mu, chanVars, srvVars, histVars,
                   apps, alFile, alReadable, events, changesLeft, rwReaders, rwPending, reqVars>>

\* reload: al.mu.Lock() is called; readers arriving from now on wait
reloadLock ==
    /\ Running
    /\ pc[Watcher] = "wt_lock"
    /\ rwPending' = TRUE
    /\ pc' = [pc EXCEPT ![Watcher] = "wt_swap"]
    /\ UNCHANGED <<cfgVars, routeVars, trVars, smpVars, rcvVars, buffer, fileVars, mu, chanVars, srvVars, histVars,
                   apps, alFile, alReadable, events, changesLeft, newList, rwReaders, reqVars>>

\* a write lock that is granted while readers hold the read lock
CanLockAmongReaders == TRUE

\* al.mu.Lock() is granted
CanLock == rwReaders = {}

\* reload: the lock is granted; al.apps = newList.apps; al.mu.Unlock()
reloadSwap ==
    /\ Running
    /\ pc[Watcher] = "wt_swap"
    /\ CanLock
    /\ apps' = newList
    /\ newList' = {}
    /\ rwPending' = FALSE
    /\ pc' = [pc EXCEPT ![Watcher] = "wt_select"]
    /\ UNCHANGED <<cfgVars, routeVars, trVars, smpVars, rcvVars, buffer, fileVars, mu, chanVars, srvVars, histVars,
                   alFile, alReadable, events, changesLeft, rwReaders, reqVars>>

\* the events fsnotify delivers while the watcher is open
Notify(kind) == IF pc[Watcher] \in {"wt_none", "wt_stopped"} THEN events
                ELSE Append(events, kind)

\* somebody rewrites the allowlist file
EnvWrite ==
    /\ Running
    /\ changesLeft > 0
    /\ changesLeft' = changesLeft - 1
    /\ \E c \in FileContents : alFile' = c
    /\ events' = Notify("write")
    /\ UNCHANGED <<cfgVars, routeVars, trVars, smpVars, rcvVars, buffer, fileVars, mu, chanVars, pc, srvVars, histVars,
                   apps, alReadable, newList, rwReaders, rwPending, reqVars>>

\* somebody changes the permissions of the allowlist file
EnvChmod ==
    /\ Running
    /\ changesLeft > 0
    /\ changesLeft' = changesLeft - 1
    /\ alReadable' = ~alReadable
    /\ events' = Notify("chmod")
    /\ UNCHANGED <<cfgVars, routeVars, trVars, smpVars, rcvVars, buffer, fileVars, mu, chanVars, pc, srvVars, histVars,
                   apps, alFile, newList, rwReaders, rwPending, reqVars>>

(* -------------------------------- Write -------------------------------- *)

\* a Write that flushes one entry before the buffer is full
NeedsFlushEarly(n) == n + 1 >= bufferSize

\* a Write that flushes when the buffer has grown beyond its size
NeedsFlushLate(n) == n > bufferSize

\* len(w.buffer) >= w.bufferSize
NeedsFlush(n) == n >= bufferSize

\* Write: w.mu.Lock()
WriteLock(w) ==
    /\ Running
    /\ pc[w] = "w_lock"
    /\ Lock(w, "w_append")
    /\ UNCHANGED <<cfgVars, routeVars, trVars, smpVars, rcvVars, buffer, fileVars, chanVars, srvVars, histVars, alVars, reqVars>>

\* Write: append, then flush when the buffer is full
WriteAppend(w) ==
    /\ Running
    /\ pc[w] = "w_append"
    /\ buffer' = Append(buffer, wEntry[w])
    /\ appended' = Append(appended, wEntry[w])
    /\ pc' = [pc EXCEPT ![w] = IF NeedsFlush(Len(buffer')) THEN "fl_rotate" ELSE "w_unlock"]
    /\ UNCHANGED <<cfgVars, routeVars, trVars, smpVars, rcvVars, fileVars, mu, chanVars, srvVars, preClose, alVars, reqVars>>

\* Write: deferred w.mu.Unlock(), return to processLogRecord and to the front end
WriteUnlock(w) ==
    /\ Running
    /\ pc[w] = "w_unlock"
    /\ Unlock(w, AfterRecord(w))
    /\ preShutdown' = Finished(w)
    /\ wEntry' = [wEntry EXCEPT ![w] = 0]
    /\ preClose' = IF pc[MainProc] \in {"m_wait", "m_stopWatcher"}
                   THEN preClose \cup {wEntry[w]} ELSE preClose
    /\ UNCHANGED <<cfgVars, routeVars, trVars, smpVars, stats, obs, wBatch, batchIds, buffer, fileVars, chanVars, srvVars, appended, alVars,
                   nextId, wRec, wEmpty, wAllowed, wSeen>>

(* --------------------------- flushLocked ------------------------------- *)

\* a rotation check that lets the file reach the threshold
NeedsRotationLate(size) == size > maxFileSize

\* info.Size() >= w.maxFileSize
NeedsRotation(size) == size >= maxFileSize

\* whether a call of the rotation that can fail succeeds
Outcomes == IF ioFaults THEN BOOLEAN ELSE {TRUE}

\* flushLocked up to and including rotateIfNeeded
rotateIfNeeded(p) ==
    /\ Running
    /\ pc[p] = "fl_rotate"
    /\ IF Len(buffer) = 0
       THEN /\ pc' = [pc EXCEPT ![p] = FlushReturn(p)]
            /\ UNCHANGED fileVars
       ELSE /\ pc' = [pc EXCEPT ![p] = "fl_write"]
            /\ IF handle = "open" /\ NeedsRotation(Len(file))
               THEN \* Close, Remove(path.1), Rename(path, path.1), OpenFile(path): the
                    \* errors of Rename and OpenFile are dropped, and w.file is nil
                    \* after an OpenFile that failed
                    \E renamed \in Outcomes, opened \in Outcomes :
                        /\ rotated' = IF renamed THEN <<file>> ELSE <<>>
                        /\ file' = IF renamed THEN <<>> ELSE file
                        /\ handle' = IF opened THEN "open" ELSE "nil"
               ELSE \* Stat failed on a closed or nil handle, or the file is below the
                    \* threshold
                    UNCHANGED fileVars
    /\ UNCHANGED <<cfgVars, routeVars, trVars, smpVars, rcvVars, buffer, mu, chanVars, srvVars, histVars, alVars, reqVars>>

\* json.Marshal(entry) returns no error
Marshals(entry) == entry \notin badEntries

\* a write loop that ends at the first entry json.Marshal fails for
RECURSIVE MarshalledUntilError(_)
MarshalledUntilError(b) ==
    IF b = <<>> \/ ~Marshals(Head(b)) THEN <<>>
    ELSE <<Head(b)>> \o MarshalledUntilError(Tail(b))
WrittenFileUntilError(f, b, h) == IF h = "open" THEN f \o MarshalledUntilError(b) ELSE f

\* the lines the write loop of flushLocked leaves in the file: an entry json.Marshal
\* fails for is skipped, and writes to a handle that is not open fail
WrittenFile(f, b, h) == IF h = "open" THEN f \o SelectSeq(b, Marshals) ELSE f

\* flushLocked: marshal and write every buffered entry; errors of a closed handle are ignored
flushLockedWrite(p) ==
    /\ Running
    /\ pc[p] = "fl_write"
    /\ file' = WrittenFile(file, buffer, handle)
    /\ pc' = [pc EXCEPT ![p] = "fl_clear"]
    /\ UNCHANGED <<cfgVars, routeVars, trVars, smpVars, rcvVars, buffer, rotated, handle, mu, chanVars, srvVars, histVars,
                   alVars, reqVars>>

\* a flush that forgets to clear the buffer
flushLockedKeepsBuffer(p) ==
    /\ Running
    /\ pc[p] = "fl_clear"
    /\ pc' = [pc EXCEPT ![p] = FlushReturn(p)]
    /\ UNCHANGED <<cfgVars, routeVars, trVars, smpVars, rcvVars, buffer, fileVars, mu, chanVars, srvVars, histVars, alVars, reqVars>>

\* flushLocked: w.file.Sync(); w.buffer = w.buffer[:0]
flushLockedClear(p) ==
    /\ Running
    /\ pc[p] = "fl_clear"
    /\ buffer' = <<>>
    /\ pc' = [pc EXCEPT ![p] = FlushReturn(p)]
    /\ UNCHANGED <<cfgVars, routeVars, trVars, smpVars, rcvVars, fileVars, mu, chanVars, srvVars, histVars, alVars, reqVars>>

(* ---------------------------- flushLoop -------------------------------- *)

\* case <-ticker.C
flushLoopTick ==
    /\ Running
    /\ pc[Flusher] = "f_select"
    /\ pc' = [pc EXCEPT ![Flusher] = "f_lock"]
    /\ UNCHANGED <<cfgVars, routeVars, trVars, smpVars, rcvVars, buffer, fileVars, mu, chanVars, srvVars, histVars, alVars, reqVars>>

\* a flush task that returns without closing w.done
flushLoopStopKeepsDone ==
    /\ Running
    /\ pc[Flusher] = "f_select"
    /\ stop
    /\ pc' = [pc EXCEPT ![Flusher] = "f_done"]
    /\ UNCHANGED <<cfgVars, routeVars, trVars, smpVars, rcvVars, buffer, fileVars, mu, chanVars, srvVars, histVars,
                   alVars, reqVars>>

\* case <-w.stop: return, deferred close(w.done)
flushLoopStop ==
    /\ Running
    /\ pc[Flusher] = "f_select"
    /\ stop
    /\ done' = TRUE
    /\ pc' = [pc EXCEPT ![Flusher] = "f_done"]
    /\ UNCHANGED <<cfgVars, routeVars, trVars, smpVars, rcvVars, buffer, fileVars, mu, stop, stopWatcher, srvVars, histVars,
                   alVars, reqVars>>

\* w.mu.Lock()
flushLoopLock ==
    /\ Running
    /\ pc[Flusher] = "f_lock"
    /\ Lock(Flusher, "f_check")
    /\ UNCHANGED <<cfgVars, routeVars, trVars, smpVars, rcvVars, buffer, fileVars, chanVars, srvVars, histVars, alVars, reqVars>>

\* a periodic task that never flushes
flushLoopNeverFlushes ==
    /\ Running
    /\ pc[Flusher] = "f_check"
    /\ pc' = [pc EXCEPT ![Flusher] = "f_unlock"]
    /\ UNCHANGED <<cfgVars, routeVars, trVars, smpVars, rcvVars, buffer, fileVars, mu, chanVars, srvVars, histVars, alVars, reqVars>>

\* if len(w.buffer) > 0 { w.flushLocked() }
flushLoopCheck ==
    /\ Running
    /\ pc[Flusher] = "f_check"
    /\ pc' = [pc EXCEPT ![Flusher] = IF Len(buffer) > 0 THEN "fl_rotate" ELSE "f_unlock"]
    /\ UNCHANGED <<cfgVars, routeVars, trVars, smpVars, rcvVars, buffer, fileVars, mu, chanVars, srvVars, histVars, alVars, reqVars>>

\* w.mu.Unlock()
flushLoopUnlock ==
    /\ Running
    /\ pc[Flusher] = "f_unlock"
    /\ Unlock(Flusher, "f_select")
    /\ UNCHANGED <<cfgVars, routeVars, trVars, smpVars, rcvVars, buffer, fileVars, chanVars, srvVars, histVars, alVars, reqVars>>

(* ------------------------- main: shutdown ------------------------------ *)

\* <-sigChan
Signal ==
    /\ pc[MainProc] = "m_wait"
    /\ pc' = [pc EXCEPT ![MainProc] = "m_stopWatcher"]
    /\ UNCHANGED <<cfgVars, routeVars, trVars, smpVars, rcvVars, buffer, fileVars, mu, chanVars, srvVars, histVars, alVars, reqVars>>

\* close(stopWatcher); if jsonWriter != nil { jsonWriter.Close() }
CloseStopWatcher ==
    /\ pc[MainProc] = "m_stopWatcher"
    /\ stopWatcher' = TRUE
    /\ pc' = [pc EXCEPT ![MainProc] = IF jsonWriterSet THEN "c_stop" ELSE "m_gracefulStop"]
    /\ UNCHANGED <<cfgVars, routeVars, trVars, smpVars, rcvVars, buffer, fileVars, mu, stop, done, srvVars, histVars, alVars, reqVars>>

\* Close: close(w.stop)
CloseStop ==
    /\ pc[MainProc] = "c_stop"
    /\ stop' = TRUE
    /\ pc' = [pc EXCEPT ![MainProc] = "c_wait"]
    /\ UNCHANGED <<cfgVars, routeVars, trVars, smpVars, rcvVars, buffer, fileVars, mu, done, stopWatcher, srvVars, histVars,
                   alVars, reqVars>>

\* a Close that does not wait for the flush task
CloseWithoutWaiting ==
    /\ pc[MainProc] = "c_wait"
    /\ pc' = [pc EXCEPT ![MainProc] = "c_lock"]
    /\ UNCHANGED <<cfgVars, routeVars, trVars, smpVars, rcvVars, buffer, fileVars, mu, chanVars, srvVars, histVars, alVars, reqVars>>

\* Close: <-w.done
CloseWaitDone ==
    /\ pc[MainProc] = "c_wait"
    /\ done
    /\ pc' = [pc EXCEPT ![MainProc] = "c_lock"]
    /\ UNCHANGED <<cfgVars, routeVars, trVars, smpVars, rcvVars, buffer, fileVars, mu, chanVars, srvVars, histVars, alVars, reqVars>>

\* Close: w.mu.Lock()
CloseLock ==
    /\ pc[MainProc] = "c_lock"
    /\ Lock(MainProc, "c_check")
    /\ UNCHANGED <<cfgVars, routeVars, trVars, smpVars, rcvVars, buffer, fileVars, chanVars, srvVars, histVars, alVars, reqVars>>

\* a Close that closes the file without flushing
CloseCheckSkipsFlush ==
    /\ pc[MainProc] = "c_check"
    /\ pc' = [pc EXCEPT ![MainProc] = "c_close"]
    /\ UNCHANGED <<cfgVars, routeVars, trVars, smpVars, rcvVars, buffer, fileVars, mu, chanVars, srvVars, histVars, alVars, reqVars>>

\* Close: if len(w.buffer) > 0 { w.flushLocked() }
CloseCheck ==
    /\ pc[MainProc] = "c_check"
    /\ pc' = [pc EXCEPT ![MainProc] = IF Len(buffer) > 0 THEN "fl_rotate" ELSE "c_close"]
    /\ UNCHANGED <<cfgVars, routeVars, trVars, smpVars, rcvVars, buffer, fileVars, mu, chanVars, srvVars, histVars, alVars, reqVars>>

\* Close: return w.file.Close(), deferred w.mu.Unlock()
CloseFile ==
    /\ pc[MainProc] = "c_close"
    /\ handle' = "closed"
    /\ Unlock(MainProc, "m_gracefulStop")
    /\ UNCHANGED <<cfgVars, routeVars, trVars, smpVars, rcvVars, buffer, file, rotated, chanVars, srvVars, histVars, alVars, reqVars>>

\* grpcServer.GracefulStop(): stop accepting new RPCs ...
GracefulStop ==
    /\ pc[MainProc] = "m_gracefulStop"
    /\ grpcServing' = FALSE
    /\ pc' = [pc EXCEPT ![MainProc] = "m_drain"]
    /\ UNCHANGED <<cfgVars, routeVars, trVars, smpVars, rcvVars, buffer, fileVars, mu, chanVars, httpServing, histVars, alVars, reqVars>>

\* ... and block until the pending RPCs are finished
GracefulStopDrained ==
    /\ pc[MainProc] = "m_drain"
    /\ \A w \in Workers : IsGRPC(w) => pc[w] = "idle"
    /\ pc' = [pc EXCEPT ![MainProc] = "m_httpClose"]
    /\ UNCHANGED <<cfgVars, routeVars, trVars, smpVars, rcvVars, buffer, fileVars, mu, chanVars, srvVars, histVars, alVars, reqVars>>

\* httpServer.Close() closes the listeners without waiting for the handlers;
\* main then reads the stats and returns, which ends the process
HTTPCloseAndExit ==
    /\ pc[MainProc] = "m_httpClose"
    /\ httpServing' = FALSE
    /\ pc' = [pc EXCEPT ![MainProc] = "m_exit"]
    /\ UNCHANGED <<cfgVars, routeVars, trVars, smpVars, rcvVars, buffer, fileVars, mu, chanVars, grpcServing, histVars, alVars, reqVars>>

(* --------------------------- specifications ---------------------------- *)

ReadStep ==
    \/ \E w \in Workers : IsAllowedRLock(w)
    \/ \E w \in Workers : IsAllowedReturn(w)
    \/ \E w \in Workers : Filter(w)

ReloadStep ==
    \/ WatchFileEvent
    \/ reloadLoad
    \/ reloadLock
    \/ reloadSwap

AllowStep ==
    \/ ReadStep
    \/ WatchFileStop
    \/ ReloadStep
    \/ EnvWrite
    \/ EnvChmod

WriteStep ==
    \/ \E w \in Workers : WriteLock(w)
    \/ \E w \in Workers : WriteAppend(w)
    \/ \E w \in Workers : WriteUnlock(w)

FlushStep ==
    \/ \E p \in Procs : rotateIfNeeded(p)
    \/ \E p \in Procs : flushLockedWrite(p)
    \/ \E p \in Procs : flushLockedClear(p)

WriterStep ==
    \/ WriteStep
    \/ FlushStep
    \/ flushLoopTick
    \/ flushLoopLock
    \/ flushLoopCheck
    \/ flushLoopUnlock

CloseStep ==
    \/ CloseStop
    \/ flushLoopStop
    \/ CloseWaitDone
    \/ CloseLock
    \/ CloseCheck
    \/ CloseFile

MainStep ==
    \/ Signal
    \/ CloseStopWatcher
    \/ GracefulStop
    \/ GracefulStopDrained
    \/ HTTPCloseAndExit

\* requests of one record
RequestStep ==
    \/ \E w \in Workers : StartRequest(w, 1, Records, TwoSampleRecords)
    \/ \E w \in Workers : Transform(w)

\* the records of the batches of SpecReceiver: one the allowlist {"a"} allows, one it filters
BatchRecords == {[cf |-> <<"A">>, app |-> <<>>], [cf |-> <<>>, app |-> <<"b">>]}

\* the loop of a front end over the records of a batch
LoopStep ==
    \/ \E w \in Workers : Receive(w)
    \/ \E w \in Workers : Transform(w)

\* an HTTP request whose body is not a batch
BadRequestStep ==
    \/ \E w \in Workers : handleLogsUndecodable(w)
    \/ \E w \in Workers : handleLogsBadRequest(w)

HealthStep ==
    \/ handleHealthReceived
    \/ handleHealthTransformed
    \/ handleHealthDropped
    \/ handleHealthReturn

\* the whole program
Next == RequestStep \/ AllowStep \/ WriterStep \/ CloseStep \/ MainStep
Spec == Init /\ [][Next]_vars

\* the output writer, its callers and the shutdown
NextWriter == RequestStep \/ WriterStep \/ CloseStep \/ MainStep
SpecWriter == InitWriter /\ [][NextWriter]_vars

\* the output writer while it stays open: Close is never called; every goroutine that
\* can run does run, the ticker keeps ticking and sync.Mutex does not starve a waiter
NextFlushLive == RequestStep \/ WriterStep
FlushFairness ==
    /\ \A w \in Workers :
          /\ SF_vars(WriteLock(w))
          /\ WF_vars(WriteAppend(w))
          /\ WF_vars(WriteUnlock(w))
    /\ \A p \in Procs :
          WF_vars(rotateIfNeeded(p) \/ flushLockedWrite(p) \/ flushLockedClear(p))
    /\ WF_vars(flushLoopTick)
    /\ SF_vars(flushLoopLock)
    /\ WF_vars(flushLoopCheck)
    /\ WF_vars(flushLoopUnlock)
SpecFlushLive == InitFlushLive /\ [][NextFlushLive]_vars /\ FlushFairness

\* the two front ends with their counters, the health endpoint, the pipeline of a
\* record up to the counters and the shutdown
NextReceiver ==
    \/ \E w \in Workers : StartRequest(w, MaxBatch, BatchRecords, TwoSampleRecords)
    \/ LoopStep
    \/ \E w \in Workers : Drop(w)
    \/ ReadStep
    \/ HealthStep
    \/ MainStep
SpecReceiver == InitReceiver /\ [][NextReceiver]_vars

\* batches of both front ends, decodable or not, on their way into the writer buffer;
\* the ticker does not fire
NextBatch ==
    \/ \E w \in Workers : StartRequest(w, MaxBatch, Records, TwoSampleRecords)
    \/ LoopStep
    \/ BadRequestStep
    \/ WriteStep
    \/ FlushStep
SpecBatch == InitBatch /\ [][NextBatch]_vars

\* the output writer while it stays open, with failing calls
NextFaults == RequestStep \/ WriterStep
SpecFaults == InitFaults /\ [][NextFaults]_vars

\* requests of one record each, sampled and counted
NextSample ==
    \/ \E w \in Workers : StartRequest(w, 1, Records, SampleRecords)
    \/ \E w \in Workers : Drop(w)
    \/ \E w \in Workers : Transform(w)
SpecSample == InitSample /\ [][NextSample]_vars

\* the output writer with its callers and one call of Close: every goroutine that can
\* run does run, a select with several ready cases takes each of them sooner or
\* later, and sync.Mutex does not starve a waiter
NextCloseLive == RequestStep \/ WriterStep \/ CloseStep \/ Signal \/ CloseStopWatcher
CloseFairness ==
    /\ FlushFairness
    /\ SF_vars(flushLoopStop)
    /\ WF_vars(CloseStop)
    /\ WF_vars(CloseWaitDone)
    /\ SF_vars(CloseLock)
    /\ WF_vars(CloseCheck)
    /\ WF_vars(CloseFile)
SpecCloseLive == InitFlushLive /\ [][NextCloseLive]_vars /\ CloseFairness

\* requests of one record each through sampling, allowlist, transformation and Write
NextPipeline ==
    \/ \E w \in Workers : StartRequest(w, 1, BatchRecords, TwoSampleRecords)
    \/ \E w \in Workers : Drop(w)
    \/ ReadStep
    \/ \E w \in Workers : Transform(w)
    \/ WriteStep
    \/ FlushStep
SpecPipeline == InitPipeline /\ [][NextPipeline]_vars

\* Apply on records
NextTransform ==
    ApplyBegin \/ ApplyRename \/ ApplyDelete \/ ApplyRedact \/ ApplyTruncate \/ ApplyReturn
SpecTransform == InitTransform /\ [][NextTransform]_vars

\* the router applied to records
NextRoute == ApplyRoute
SpecRoute == InitRoute /\ [][NextRoute]_vars

\* the allowlist, its readers, its watcher and the shutdown
NextAllow == RequestStep \/ AllowStep \/ Signal \/ CloseStopWatcher
SpecAllow == InitAllow /\ [][NextAllow]_vars

\* the allowlist while its file stays readable and the watcher is not stopped; the
\* watcher goroutine is scheduled: it receives the events fsnotify queued, an
\* IsAllowed call that holds the read lock returns, and the RWMutex grants the write
\* lock once the readers are gone
NextAllowLive == RequestStep \/ ReadStep \/ ReloadStep \/ EnvWrite
AllowFairness ==
    /\ WF_vars(ReloadStep)
    /\ \A w \in Workers : WF_vars(IsAllowedReturn(w))
SpecAllowLive == InitAllowLive /\ [][NextAllowLive]_vars /\ AllowFairness

\* a constructed allowlist, its readers and its reloads
SpecIdentifier == InitIdentifier /\ [][NextAllowLive]_vars

(* ============================== claims ================================= *)

IsPrefix(s, t) == Len(s) <= Len(t) /\ SubSeq(t, 1, Len(s)) = s
IsSuffix(s, t) == Len(s) <= Len(t) /\ SubSeq(t, Len(t) - Len(s) + 1, Len(t)) = s

\* positions of a process inside flushLocked
FlushPcs == {"fl_rotate", "fl_write", "fl_clear"}

(* ------------------------------- C1 ------------------------------------ *)

\* C1 as stated: when Close is about to close the handle (its flush is over and it
\* still holds the mutex), the buffer is empty and the file holds a line for every
\* entry whose Write returned before Close was called.
C1_FileHasEveryEntry ==
    pc[MainProc] = "c_close" => (buffer = <<>> /\ preClose \subseteq Range(file))

\* C1 as amended: Close writes the buffered entries, in order, at the end of the
\* open file before it closes the handle and leaves the buffer empty; the file then
\* holds every entry written before Close provided no rotation created a .1 file.
C1_CloseFlushesBuffer ==
    /\ pc[MainProc] = "fl_clear" => (handle = "open" /\ IsSuffix(buffer, file))
    /\ pc[MainProc] = "c_close" =>
          /\ buffer = <<>>
          /\ handle = "open"
          /\ preClose \subseteq Range(appended)
          /\ rotated = <<>> => preClose \subseteq Range(file)

\* Close has written the buffered entry behind an earlier line
C1_Witness ==
    /\ pc[MainProc] = "fl_clear"
    /\ Len(buffer) = 1
    /\ Len(file) = 2
    /\ Range(buffer) \subseteq preClose

(* ------------------------------- C2 ------------------------------------ *)

\* entries that were passed to Write and that Write has taken into the buffer
PassedToWrite == Range(appended)

\* C2: when main's shutdown is over, every entry that was passed to Write, also by
\* requests in flight during the shutdown, is in the output file.
C2_ShutdownKeepsEveryEntry ==
    pc[MainProc] = "m_exit" => PassedToWrite \subseteq Range(file)

(* ------------------------------- C3 ------------------------------------ *)

\* main is in the final flush-and-close of Close
InFinalFlush == pc[MainProc] \in {"c_check", "c_close"} \cup FlushPcs

\* C3 as stated: the final flush-and-close runs only after the watcher and the flush
\* task have both been signalled and have both terminated.
C3_BothTasksTerminated ==
    InFinalFlush =>
        /\ stopWatcher /\ pc[Watcher] = "wt_stopped"
        /\ stop /\ pc[Flusher] = "f_done"

\* C3 as amended: the final flush-and-close runs only after both tasks have been
\* signalled to stop and the flush task has terminated (the watcher is not awaited).
C3_FlushTaskTerminated ==
    InFinalFlush =>
        /\ stopWatcher
        /\ stop /\ done /\ pc[Flusher] = "f_done"

\* the final flush writes an entry while the watcher is still in a reload
C3_Witness ==
    /\ pc[MainProc] = "fl_write"
    /\ buffer # <<>>
    /\ pc[Watcher] = "wt_swap"

(* ------------------------------- C4 ------------------------------------ *)

\* positions between w.mu.Lock() and w.mu.Unlock(): the code that touches buffer and file
InCritical(p) ==
    pc[p] \in {"w_append", "w_unlock", "f_check", "f_unlock", "c_check", "c_close"} \cup FlushPcs

\* C4: at most one process is between Lock and Unlock of the writer mutex, so no two
\* of the flushes of Write, of the periodic task and of Close overlap, and whoever is
\* there holds the mutex.
C4_OneFlushAtATime ==
    \A p, q \in Procs :
        InCritical(p) => /\ mu = {p}
                         /\ (InCritical(q) => p = q)

\* the periodic flush is writing while a Write waits for the mutex and Close has
\* been called
C4_Witness ==
    /\ pc[Flusher] = "fl_write"
    /\ pc[MainProc] = "c_wait"
    /\ \E w \in Workers : pc[w] = "w_lock"

(* ------------------------------- C5 ------------------------------------ *)

\* p executes the write loop of a flush in this step
FlushWrites(p) == pc[p] = "fl_write" /\ pc'[p] = "fl_clear"

C6_TickFlushesEventually ==
    /\ \A e \in 1..MaxEntries :
          (\E w \in Workers : wEntry[w] = e /\ pc[w] = "w_lock") ~> (e \in Range(file))
    /\ [][ (pc[Flusher] = "f_check" /\ pc'[Flusher] # "f_check" /\ buffer = <<>>) =>
              (pc'[Flusher] = "f_unlock" /\ buffer' = buffer /\ fileVars' = fileVars) ]_vars

\* the periodic task has written a buffer that is not full
C6_Witness ==
    /\ pc[Flusher] = "fl_clear"
    /\ buffer # <<>>
    /\ Len(buffer) < bufferSize
    /\ IsSuffix(buffer, file)

(* ------------------------------- C7 ------------------------------------ *)

\* p passes the rotation check of a flush of a non-empty buffer in this step
FlushStarts(p) == pc[p] = "fl_rotate" /\ pc'[p] = "fl_write"

MidFlush == \E p \in Procs : pc[p] = "fl_clear"

\* C8: a flush puts exactly the buffered entries, in buffer order, at the end of the
\* open file and leaves the buffer empty; as long as no .1 file exists the lines of
\* the file are the first entries in the order Write appended them, each once, and
\* together with the buffer they are all of them while the file is open.
C8_FlushKeepsWriteOrder ==
    /\ \A p \in Procs : (pc[p] = "fl_clear" /\ handle = "open") => IsSuffix(buffer, file)
    /\ pc[Flusher] = "f_unlock" => buffer = <<>>
    /\ pc[MainProc] = "c_close" => buffer = <<>>
    /\ \A w \in Workers : pc[w] = "w_unlock" => (buffer = <<>> \/ Len(buffer) < bufferSize)
    /\ rotated = <<>> =>
          /\ IsPrefix(file, appended)
          /\ handle = "open" => appended = (IF MidFlush THEN file ELSE file \o buffer)
    /\ \A i, j \in 1..Len(appended) : appended[i] = appended[j] => i = j

\* three entries were appended out of the order of their identities and flushed by
\* two flushes
C8_Witness ==
    /\ rotated = <<>>
    /\ file = <<2, 1, 3>>
    /\ buffer = <<>>
    /\ bufferSize = 2

(* ------------------------------- C9 ------------------------------------ *)

\* the sets a load of the allowlist file can produce
CompleteSets == {LoadFromFile(c) : c \in FileContents}

\* C9: al.apps is always a complete loaded set; from the moment an IsAllowed call
\* holds the read lock until it returns al.apps is the set it found when it took the
\* lock, whatever a concurrent reload does, and the value it returns is the answer
\* for that one set: the set before the reload or the set after it, never a mix.
C9_ReadersSeeOneSet ==
    /\ apps \in CompleteSets
    /\ \A w \in Workers :
          /\ pc[w] = "a_return" => (w \in rwReaders /\ apps = wSeen[w])
          /\ pc[w] = "a_done" => wAllowed[w] = AllowedIn(wSeen[w], wRec[w])

\* a reload that produced a different set waits for the lock while an IsAllowed call
\* that found a non-empty set is between its two reads
C9_Witness ==
    /\ pc[Watcher] = "wt_swap"
    /\ newList # apps
    /\ \E w \in Workers : pc[w] = "a_return" /\ ~wEmpty[w]

(* ------------------------------- C10 ----------------------------------- *)

\* C10: a reload whose LoadFromFile fails leaves al.apps as it was and takes the
\* watcher back to its select, where the next event is received; the watcher stops
\* only when the stop channel is closed.
C10_FailedReloadKeepsSet ==
    /\ [](pc[Watcher] = "wt_stopped" => stopWatcher)
    /\ [][ (pc[Watcher] = "wt_load" /\ pc'[Watcher] # "wt_load" /\ ~alReadable) =>
              /\ apps' = apps
              /\ pc'[Watcher] = "wt_select"
              /\ rwPending' = rwPending
              /\ events' = events ]_vars
    /\ [][ apps' # apps => (pc[Watcher] = "wt_swap" /\ apps' = newList) ]_vars

\* the file was rewritten and made unreadable, the reload failed, the later event
\* was received too, the watcher is back in its select and the old set is in place
C10_Witness ==
    /\ pc[Watcher] = "wt_select"
    /\ ~stopWatcher
    /\ events = <<>>
    /\ changesLeft = 0
    /\ ~alReadable
    /\ apps # LoadFromFile(alFile)

(* ------------------------------- C11 ----------------------------------- *)

\* C11: while the watcher is active and the file can be read, a write to the file is
\* followed by a state in which al.apps is the set the file lists, so that it contains
\* every identifier appended to the file; al.apps changes only by the swap of a reload,
\* and an IsAllowed call that finds the identifier of its record in al.apps returns true.
C11_ReloadAddsIdentifier ==
    /\ ("write" \in Range(events)) ~> (apps = LoadFromFile(alFile))
    /\ [][apps' # apps => (pc[Watcher] = "wt_swap" /\ apps' = newList)]_vars
    /\ [](\A w \in Workers :
            (pc[w] = "a_done" /\ ToLower(AppName(wRec[w])) \in wSeen[w]) => wAllowed[w])

\* a reload has loaded an identifier that al.apps lacks and waits for the write lock,
\* and a record carrying that identifier waits to be evaluated after the reload
C11_Witness ==
    /\ pc[Watcher] = "wt_swap"
    /\ <<"b">> \in newList \ apps
    /\ \E w \in Workers : pc[w] = "a_rlock" /\ wRec[w].app = <<"b">>

(* ------------------------------- C12 ----------------------------------- *)

\* the application identity of a record: cf_app_name, else application_name
Identity(rec) == IF rec.cf # <<>> THEN rec.cf ELSE rec.app

\* two strings are equal ignoring letter case
EqualFold(s, t) == Len(s) = Len(t) /\ \A i \in 1..Len(s) : Lower(s[i]) = Lower(t[i])

\* C12: an IsAllowed call that found the set empty returns true for every record; one
\* that found it non-empty returns true exactly when the identity of the record
\* equals a listed identifier ignoring letter case.
C12_IsAllowedMatchesList ==
    \A w \in Workers :
        pc[w] = "a_done" =>
            wAllowed[w] = (\/ wSeen[w] = {}
                           \/ \E id \in wSeen[w] : EqualFold(id, Identity(wRec[w])))

\* a record whose cf_app_name is "A" was allowed by the list {"a"}
C12_Witness ==
    \E w \in Workers :
        pc[w] = "a_done" /\ wSeen[w] = {<<"a">>} /\ wRec[w].cf = <<"A">> /\ wAllowed[w]

(* ------------------------------- C13 ----------------------------------- *)

\* the lines of a file that are identifiers: non-empty after trimming and not
\* starting with the comment marker
IsIdentifierLine(l) == TrimSpace(l) # <<>> /\ Head(TrimSpace(l)) # "#"

\* the set the claim describes: the identifier lines, trimmed and lower-cased
ListedSet(lines) ==
    {ToLower(TrimSpace(lines[i])) : i \in {j \in 1..Len(lines) : IsIdentifierLine(lines[j])}}

\* C13: the set main loads at start and the set every successful load of a reload
\* produces is exactly the set of identifier lines of the file, trimmed, lower-cased
\* and without duplicates; when the file has no identifier line the set is empty and
\* an IsAllowed call that finds it allows every record.
C13_LoadKeepsIdentifierLines ==
    /\ apps = ListedSet(alFile)
    /\ [][ (pc[Watcher] = "wt_load" /\ pc'[Watcher] = "wt_lock") =>
              /\ newList' = ListedSet(alFile)
              /\ (\A i \in 1..Len(alFile) : ~IsIdentifierLine(alFile[i])) => newList' = {} ]_vars
    /\ [](\A w \in Workers : (pc[w] = "a_done" /\ wSeen[w] = {}) => wAllowed[w])

\* a reload of a file of comments and blank lines has produced the empty set while a
\* non-empty set is in place
C13_Witness ==
    /\ pc[Watcher] = "wt_lock"
    /\ alFile = <<<<"#", "a">>, <<" ">>, <<" ", "#", "b">>>>
    /\ newList = {}
    /\ apps # {}

(* ------------------------------- C14 ----------------------------------- *)

\* C14: an HTTP request whose body cannot be decoded takes the handler to its
\* StatusBadRequest answer and from there to its return; neither step changes a
\* counter, takes a record or an entry identity, or touches the writer buffer.
C14_UndecodableBatchIsRejected ==
    [][ \A w \in Workers :
          ((pc[w] = "idle" /\ pc'[w] = "h_bad") \/ (pc[w] = "h_bad" /\ pc'[w] # "h_bad")) =>
              /\ ~IsGRPC(w)
              /\ pc[w] = "h_bad" => pc'[w] = "idle"
              /\ stats' = stats
              /\ buffer' = buffer /\ appended' = appended /\ fileVars' = fileVars
              /\ wBatch'[w] = <<>> /\ wEntry'[w] = 0 /\ nextId' = nextId
      ]_vars

\* the HTTP handler is about to answer an undecodable body with StatusBadRequest
\* while an entry of another batch is in the writer buffer
C14_Witness ==
    \E w \in Workers :
        /\ pc[w] = "h_bad"
        /\ stats.received = 1
        /\ Len(buffer) = 1

(* ------------------------------- C15 ----------------------------------- *)

\* the position at which Write appended entry e
Pos(e) == CHOOSE i \in 1..Len(appended) : appended[i] = e

\* C15: the records of a batch are received in batch order by one worker, one at a
\* time: the records still to come are later in the batch than the one in progress
\* and every earlier one has been appended (nothing is dropped here); so the entries
\* of one batch are appended to the writer buffer in batch order.
C15_BatchOrderKept ==
    /\ \A b \in batchIds : \A i, j \in b[1]..b[2] :
          (i < j /\ j \in Range(appended)) => (i \in Range(appended) /\ Pos(i) < Pos(j))
    /\ \A w \in Workers :
          /\ \A k \in 1..Len(wBatch[w]) :
                /\ wBatch[w][k].id > wEntry[w]
                /\ k > 1 => wBatch[w][k].id = wBatch[w][k - 1].id + 1
          /\ wBatch[w] # <<>> => (pc[w] # "idle" /\ wBatch[w][1].id \notin Range(appended))

\* the two entries of one batch were appended in batch order with the entry of another
\* request between them
C15_Witness ==
    /\ <<1, 2>> \in batchIds
    /\ appended = <<1, 3, 2>>

(* ------------------------------- C16 ----------------------------------- *)

\* C16: the three values a health request has loaded and is about to report satisfy
\* received >= transformed + dropped.
C16_ReportedTripleOrdered ==
    pc[Observer] = "o_report" => obs.received >= obs.transformed + obs.dropped

(* ------------------------------- C17 ----------------------------------- *)

\* C17: when the process exits, no batch that was started before the shutdown began
\* is still being processed, on either front end.
C17_InFlightBatchesFinish ==
    pc[MainProc] = "m_exit" => preShutdown = {}

(* ------------------------------- C18 ----------------------------------- *)

\* the rule as it was configured, by its name
RuleNamed(name) == CHOOSE i \in 1..Len(rules) : rules[i].Name = name

\* the severity number a threshold tier stands for
TierNumber(tier) ==
    CASE tier = "debug" -> SeverityDebug
      [] tier = "info" -> SeverityInfo
      [] tier = "warn" -> SeverityWarn
      [] tier = "error" -> SeverityError

\* the record has an attribute with the key
HasAttribute(lr, key) == \E i \in 1..Len(lr.attrs) : lr.attrs[i].key = key

\* a severity condition holds at or above its configured tier
SeveritySatisfied(lr, rule) == lr.severity >= TierNumber(rule.Conditions["_severity"])

\* an attribute condition holds when the attribute exists and its value matches
AttributeSatisfied(lr, rule, key) ==
    /\ HasAttribute(lr, key)
    /\ MatchString(Compile(rule.Conditions[key]), getAttributeValue(lr.attrs, key))

\* the record satisfies every condition of the configured rule
Satisfies(lr, rule) ==
    \A key \in DOMAIN rule.Conditions :
        IF key = "_severity" THEN SeveritySatisfied(lr, rule)
        ELSE AttributeSatisfied(lr, rule, key)

\* the configured rules the record satisfies
SatisfiedRules(lr) == {i \in 1..Len(rules) : Satisfies(lr, rules[i])}

\* C18: Route returns the index and name of a rule of smallest priority among the rules
\* whose conditions the record all satisfies, and "tas_logs"/"default" when it
\* satisfies none; with the default rules an ERROR record of a security- application
\* goes to the error index and an INFO record of a security- application in space
\* production to the security index.
C18_RouteTakesFirstSatisfiedRule ==
    rtResult # NoRouteResult =>
        /\ IF SatisfiedRules(rtRecord) = {}
           THEN rtResult = [index |-> "tas_logs", ruleName |-> "default"]
           ELSE \E i \in SatisfiedRules(rtRecord) :
                   /\ \A j \in SatisfiedRules(rtRecord) :
                         rules[i].Priority <= rules[j].Priority
                   /\ rtResult = [index |-> rules[i].Index, ruleName |-> rules[i].Name]
        /\ (/\ rules = DefaultRules
            /\ Len(getAttributeValue(rtRecord.attrs, "cf_app_name")) > 0
            /\ Head(getAttributeValue(rtRecord.attrs, "cf_app_name")) = "s")
           => /\ rtRecord.severity = SeverityError => rtResult.index = "tas_errors"
              /\ (/\ rtRecord.severity = SeverityInfo
                  /\ getAttributeValue(rtRecord.attrs, "cf_space_name") = <<"p">>)
                 => rtResult.index = "tas_security"

(* ------------------------------- C19 ----------------------------------- *)

\* C19: for every rule of the router with a severity condition, the condition is found
\* satisfied for the routed record exactly when the record's severity number is at
\* or above the tier the rule was configured with.
C19_SeverityThresholdIsTheConfiguredTier ==
    rtResult # NoRouteResult =>
        \A i \in 1..Len(router) :
            "_severity" \in DOMAIN router[i].Conditions =>
                (matchesCondition(rtRecord, router[i], "_severity")
                    <=> SeveritySatisfied(rtRecord, rules[RuleNamed(router[i].Name)]))

(* ------------------------------- C20 ----------------------------------- *)

\* C20: for every rule of the router and every attribute condition of it, the
\* condition is found satisfied for the routed record exactly when the record has
\* the attribute and its value, the empty string included, matches the pattern.
C20_AttributeConditionMatchesAnyValue ==
    rtResult # NoRouteResult =>
        \A i \in 1..Len(router) :
            \A key \in DOMAIN router[i].Conditions \ {"_severity"} :
                matchesCondition(rtRecord, router[i], key)
                    <=> AttributeSatisfied(rtRecord, rules[RuleNamed(router[i].Name)], key)

(* ------------------------------- C21 ----------------------------------- *)

\* C21: when Apply has returned, no attribute of the record has an old key of the
\* rename mapping, and every value the input stored under an old key is stored
\* under the corresponding new key.
C21_NoOldKeyRemains ==
    trPc = "done" =>
        /\ \A j \in 1..Len(trLr.attrs) : trLr.attrs[j].key \notin DOMAIN FieldRenames
        /\ \A i \in 1..Len(trIn.attrs) :
              trIn.attrs[i].key \in DOMAIN FieldRenames =>
                  \E j \in 1..Len(trLr.attrs) :
                      trLr.attrs[j] = [key |-> FieldRenames[trIn.attrs[i].key],
                                       value |-> trIn.attrs[i].value]

(* ------------------------------- C22 ----------------------------------- *)

\* the old key the rename step visits in this step
Visited == trTodo \ trTodo'

\* C22: a rename step for a pair whose old key is not in the record leaves the record
\* as it is (nothing added, removed or modified, no new key) and records no action.
C22_RenameOfMissingKeyIsNoOp ==
    [][(/\ trPc = "rename"
        /\ Visited # {}
        /\ \A oldKey \in Visited : FirstIndex(trLr.attrs, oldKey) = 0)
       => (trLr' = trLr /\ trActions' = trActions)]_vars

\* all pairs were visited for a record that has none of the old keys
C22_Witness ==
    /\ trPc = "delete"
    /\ trIn.attrs = <<[key |-> "unrelated_field", value |-> "v1"]>>
    /\ trLr = trIn
    /\ trActions = <<>>

(* ------------------------------- C23 ----------------------------------- *)

\* the action a step records
ActionOf(step) ==
    CASE step[1] = "rename" -> RenamedAction(step[2], FieldRenames[step[2]])
      [] step[1] = "delete" -> DeletedAction(step[2])
      [] step[1] = "redact" -> RedactedAction(step[2])
      [] step[1] = "truncate" -> TruncatedAction

\* C23: the action list Apply returns is never empty; it is the sentinel
\* alone exactly when no step changed the record, and otherwise it has the action of
\* every step that changed the record, in step order, and no sentinel.
C23_ActionsOrSentinel ==
    trPc = "done" =>
        /\ trActions # <<>>
        /\ trActions = <<NoAction>> <=> trChanged = <<>>
        /\ trChanged # <<>> => trActions = [i \in 1..Len(trChanged) |-> ActionOf(trChanged[i])]

(* ------------------------------- C24 ----------------------------------- *)

\* C24: an Apply on the same input record as the Apply before it returns the same
\* record and the same action list, whatever order the rename pairs are visited in.
C24_ApplyIsDeterministic ==
    (trPc = "done" /\ trPrev.actions # <<>> /\ trPrev.in = trIn) =>
        (trPrev.lr = trLr /\ trPrev.actions = trActions)

(* ------------------------------- C25 ----------------------------------- *)

\* the content hash of a record
HashOf(lr) == hash[[severity |-> lr.severity, body |-> lr.body]]

\* C25: under every configuration ShouldSample is true for every record of severity
\* ERROR or above, and no record of severity ERROR or above is about to be counted
\* as dropped by sampling.
C25_ErrorsAreNeverSampledOut ==
    /\ \A lr \in SampleRecords :
          lr.severity >= SeverityError => ShouldSample(lr, samplingConfig)
    /\ \A w \in Workers : pc[w] = "p_drop" => wLr[w].severity < SeverityError

\* a FATAL record was kept under rate 3 without the debug-only flag although its hash
\* is not a multiple of the rate
C25_Witness ==
    /\ samplingSet /\ sampleRate = 3 /\ ~sampleDebugOnly
    /\ \E w \in Workers :
          /\ pc[w] = "p_count"
          /\ wLr[w].severity = SeverityFatal
          /\ HashOf(wLr[w]) % sampleRate # 0

(* ------------------------------- C26 ----------------------------------- *)

\* C26: with the debug-only flag set ShouldSample is true for every record of severity
\* INFO or above at every rate, and a record about to be counted as dropped has a
\* severity below INFO.
C26_DebugOnlyKeepsInfoAndAbove ==
    sampleDebugOnly =>
        /\ \A lr \in SampleRecords :
              lr.severity >= SeverityInfo => ShouldSample(lr, samplingConfig)
        /\ \A w \in Workers : pc[w] = "p_drop" => wLr[w].severity < SeverityInfo

\* with the flag set an INFO record was kept whose hash is not a multiple of the rate,
\* while a record of unspecified severity is dropped
C26_Witness ==
    /\ samplingSet /\ sampleRate = 3 /\ sampleDebugOnly
    /\ \E w \in Workers :
          /\ pc[w] = "p_count"
          /\ wLr[w].severity = SeverityInfo
          /\ HashOf(wLr[w]) % sampleRate # 0
    /\ \E w \in Workers :
          /\ pc[w] = "p_drop"
          /\ wLr[w].severity = SeverityUnspecified

(* ------------------------------- C27 ----------------------------------- *)

\* C27: without a sampling configuration, or with a rate of 1 or less, ShouldSample is
\* true for every record and sampling drops nothing; main installs a configuration
\* only for a rate greater than 1.
C27_NoSamplingAtRateOne ==
    /\ (~samplingSet \/ sampleRate <= 1) =>
          /\ \A lr \in SampleRecords \cup {NoSample} : ShouldSample(lr, samplingConfig)
          /\ \A w \in Workers : pc[w] # "p_drop"
          /\ stats.dropped = 0
    /\ \A rate \in SampleRates : MainSetsSampling(rate) <=> rate > 1

\* a configuration of rate 1 is installed and a DEBUG record with an odd hash was kept
\* after another record was counted as transformed
C27_Witness ==
    /\ samplingSet /\ sampleRate = 1 /\ ~sampleDebugOnly
    /\ stats.transformed = 1
    /\ \E w \in Workers :
          /\ pc[w] = "p_count"
          /\ wLr[w].severity = SeverityDebug
          /\ HashOf(wLr[w]) = 1

(* ------------------------------- C28 ----------------------------------- *)

\* the sampling decision for the worker's record has been taken
Decided(w) == pc[w] \in {"p_drop", "p_count"}

Serializable == {i \in 1..Len(buffer) : buffer[i] \notin badEntries}

\* C29: the write loop of a flush on the open file appends every buffered entry that
\* can be serialized, in buffer order, after the lines the file has, skipping only
\* the entries whose serialization fails; the flush then clears the buffer.
C29_FailedEntryAloneIsSkipped ==
    [][ \A p \in Procs :
          /\ (FlushWrites(p) /\ handle = "open") =>
                /\ IsPrefix(file, file')
                /\ Len(file') = Len(file) + Cardinality(Serializable)
                /\ \A i \in Serializable :
                      file'[Len(file) + Cardinality({j \in Serializable : j <= i})] = buffer[i]
          /\ (pc[p] = "fl_clear" /\ pc'[p] # "fl_clear") => buffer' = <<>>
      ]_vars

\* a flush of two entries has skipped the first, which cannot be serialized, and has
\* written the second
C29_Witness ==
    \E p \in Procs :
        /\ pc[p] = "fl_clear"
        /\ badEntries = {1}
        /\ buffer = <<1, 2>>
        /\ file = <<2>>
        /\ handle = "open"

(* ------------------------------- C30 ----------------------------------- *)

\* C30: whatever fails in a rotation, the writer has a valid file handle afterwards
\* and a flush that has run its write loop has put the serializable entries of its
\* buffer at the end of the file.
C30_FailedRotationKeepsWriting ==
    /\ handle = "open"
    /\ \A p \in Procs : pc[p] = "fl_clear" => IsSuffix(SelectSeq(buffer, Marshals), file)

(* ------------------------------- C31 ----------------------------------- *)

\* the step an action of the list was recorded by, by its number in the fixed order
StepOf(action) ==
    CASE action[1] = "Renamed: " -> 1
      [] action[1] = "Deleted: " -> 2
      [] action[1] = "Redacted PCI pattern #" -> 3
      [] action[1] = "Truncated body to max length" -> 4
      [] OTHER -> 0

\* the record after the redaction by the patterns from the i-th on
RECURSIVE RedactedFrom(_, _)
RedactedFrom(lr, i) ==
    IF i > Len(PCIPatterns) THEN lr
    ELSE RedactedFrom(redactPattern(lr, PCIPatterns[i], "[PCI-REDACTED]").lr, i + 1)

\* the steps Apply goes through, one after the other
StepOrder ==
    {<<"idle", "rename">>, <<"rename", "delete">>, <<"delete", "redact">>,
     <<"redact", "truncate">>, <<"truncate", "return">>, <<"return", "done">>,
     <<"done", "rename">>}

\* C31: Apply goes through rename, delete, redact and truncate in this order: the
\* deletion starts when every rename pair was visited, the body Apply returns is the
\* truncation of the redacted body, and in the action list no action of a later step
\* precedes an action of an earlier step.
C31_StepsInFixedOrder ==
    /\ [][trPc' # trPc => <<trPc, trPc'>> \in StepOrder]_vars
    /\ [](trPc \in {"delete", "redact", "truncate", "return", "done"} => trTodo = {})
    /\ [](trPc = "done" =>
            /\ trLr.body = truncateBody(RedactedFrom(trIn, 1), MaxBodyLength).lr.body
            /\ \A i, j \in 1..Len(trActions) :
                  i < j => StepOf(trActions[i]) <= StepOf(trActions[j]))

\* Apply returned with an action of each of the four steps
C31_Witness ==
    /\ trPc = "done"
    /\ {StepOf(trActions[i]) : i \in 1..Len(trActions)} = 1..4

(* ------------------------------- C32 ----------------------------------- *)

\* how many attributes of the list are this key with this value
Occurrences(attrs, attr) == Cardinality({i \in 1..Len(attrs) : attrs[i] = attr})

\* the attributes the lists of this step have
StepAttributes == Range(trLr.attrs) \cup Range(trLr'.attrs)

\* C32: a delete step for a key the record has removes the first attribute with that
\* key and no other, keeps every other attribute with its key and value, whatever
\* their order, and records one action; a delete step for a key the record does not
\* have leaves the record and the action list as they are.
C32_DeleteRemovesTheFirstOnly ==
    [][trPc = "delete" =>
        LET key == FieldsToDelete[trIdx]
            i == FirstIndex(trLr.attrs, key)
        IN IF i = 0
           THEN trLr' = trLr /\ trActions' = trActions
           ELSE /\ Len(trLr'.attrs) = Len(trLr.attrs) - 1
                /\ \A attr \in StepAttributes :
                      Occurrences(trLr'.attrs, attr) =
                          Occurrences(trLr.attrs, attr) - (IF attr = trLr.attrs[i] THEN 1 ELSE 0)
                /\ trLr'.body = trLr.body
                /\ trActions' = Append(trActions, DeletedAction(key))]_vars

\* the deletion of source_id from a record that has it twice: the second one stays
C32_Witness ==
    /\ trPc = "redact"
    /\ trIn.attrs = <<[key |-> "source_id", value |-> "v1"], [key |-> "source_id", value |-> "v2"]>>
    /\ trLr.attrs = <<[key |-> "source_id", value |-> "v2"]>>
    /\ trActions = <<DeletedAction("source_id")>>

(* ------------------------------- C33 ----------------------------------- *)

\* the positions of the string the pattern matches at
MatchesOf(pattern, str) == {i \in 1..Len(str) : MatchesAt(pattern, str, i)}

\* C33: a redact step changes the body only when it is a non-empty string the pattern
\* matches: then every match is replaced by the marker, everything else of the body
\* stays, and one action is recorded for the pattern, however many matches there
\* are; in every other case the body and the action list stay as they are. The
\* attributes stay in both cases.
C33_RedactReplacesEveryMatchOnce ==
    [][trPc = "redact" =>
        LET pattern == PCIPatterns[trIdx]
            str == GetStringValue(trLr.body)
        IN /\ trLr'.attrs = trLr.attrs
           /\ IF trLr.body.typ = "string" /\ MatchesOf(pattern, str) # {}
              THEN /\ trLr'.body.typ = "string"
                   /\ Len(trLr'.body.str) = Len(str)
                   /\ \A i \in 1..Len(str) :
                         trLr'.body.str[i] =
                             IF i \in MatchesOf(pattern, str) THEN "[PCI-REDACTED]" ELSE str[i]
                   /\ trActions' = Append(trActions, RedactedAction(trIdx))
              ELSE trLr'.body = trLr.body /\ trActions' = trActions]_vars

\* two card numbers of one body were replaced and one action was recorded
C33_Witness ==
    /\ trPc = "done"
    /\ trIn.body = StringBody(<<"C", " ", "C">>)
    /\ trLr.body = StringBody(<<"[PCI-REDACTED]", " ", "[PCI-REDACTED]">>)
    /\ trActions = <<RedactedAction(1)>>

(* ------------------------------- C40 ----------------------------------- *)

\* C40: an Apply on the record the Apply before it returned leaves the attributes and
\* the body as they are and returns the sentinel alone.
C40_ApplyIsIdempotent ==
    (trPc = "done" /\ trPrev.actions # <<>> /\ trIn = trPrev.lr) =>
        (trLr = trIn /\ trActions = <<NoAction>>)

(* ------------------------------- C34 ----------------------------------- *)

\* the worker takes a record in this step, the first of a batch or the next one
Receives(w) == pc[w] \in {"idle", "h_next"} /\ pc'[w] \in {"p_drop", "a_rlock", "p_count"}

\* the records the worker had before it at the start of the step
BatchBefore(w) ==
    <<[id |-> wEntry'[w], lr |-> wLr'[w], rec |-> wRec'[w]]>> \o wBatch'[w]

\* C34: whichever front end a worker serves, the step in which it takes a record of
\* a batch is the step of the loop body of Export and the step of the loop body of
\* handleLogs: the received counter goes up by one, the record is the first one of
\* the batch still to come, and it is handed to the same pipeline; the other
\* counters and the writer are left to the pipeline.
C34_FrontEndsTakeRecordsAlike ==
    [][\A w \in Workers :
          Receives(w) =>
              /\ ExportRecord(w, BatchBefore(w))
              /\ handleLogsRecord(w, BatchBefore(w))
              /\ stats'.received = stats.received + 1
              /\ stats'.transformed = stats.transformed
              /\ stats'.dropped = stats.dropped
              /\ stats'.filtered = stats.filtered
              /\ pc[w] = "h_next" => BatchBefore(w) = wBatch[w]
              /\ buffer' = buffer
       ]_vars

\* a worker of each front end has taken a record and has it in the pipeline, and both
\* records were counted
C34_Witness ==
    /\ \E g \in Workers : IsGRPC(g) /\ pc[g] \in {"p_drop", "a_rlock", "p_count"}
    /\ \E h \in Workers : ~IsGRPC(h) /\ pc[h] \in {"p_drop", "a_rlock", "p_count"}
    /\ stats.received = 2

(* ------------------------------- C35 ----------------------------------- *)

\* the workers with a record that was counted as received and not yet as transformed,
\* dropped or filtered
InPipeline == {w \in Workers : pc[w] \in {"p_drop", "a_rlock", "a_return", "a_done", "p_count"}}

\* by how much a step raises the three outcome counters together
Outcome ==
    (stats'.transformed - stats.transformed) + (stats'.dropped - stats.dropped)
        + (stats'.filtered - stats.filtered)

\* C35: in every state LogsReceived is LogsTransformed + LogsDropped + LogsFiltered
\* plus the number of records in the pipeline, so it is never less than the sum and
\* equal to it when no record is in flight; no step lowers a counter, and the step
\* that ends the pipeline for a record raises exactly one of the three counters by one.
C35_EveryRecordCountedOnce ==
    /\ [](stats.received = stats.transformed + stats.dropped + stats.filtered
                              + Cardinality(InPipeline))
    /\ [][/\ stats'.transformed >= stats.transformed
          /\ stats'.dropped >= stats.dropped
          /\ stats'.filtered >= stats.filtered
          /\ Outcome = Cardinality(InPipeline \ InPipeline')
          /\ Outcome <= 1]_vars

\* one record was dropped by sampling, another filtered by the allowlist, and none is
\* in flight
C35_Witness ==
    /\ stats.received = 2
    /\ stats.dropped = 1
    /\ stats.filtered = 1
    /\ InPipeline = {}

(* ------------------------------- C36 ----------------------------------- *)

\* the workers that have handed an entry to Write and have not appended it yet
InWrite == {w \in Workers : pc[w] \in {"w_lock", "w_append"}}

\* the worker's record is rejected in this step, by sampling or by the allowlist
Rejected(w) ==
    \/ pc[w] = "p_drop" /\ pc'[w] # "p_drop"
    \/ pc[w] = "a_done" /\ ~wAllowed[w] /\ pc'[w] # "a_done"

\* C36: the step that rejects a record, after sampling or after the allowlist, ends
\* the pipeline for it: it is not counted as transformed, nothing is transformed or
\* routed, the writer gets nothing, and the record was not changed on its way there.
\* The allowlist is consulted only for records ShouldSample kept, and the entries
\* handed to Write are one for each record counted as transformed.
C36_RejectedRecordsGoNoFurther ==
    /\ [][\A w \in Workers :
            /\ Rejected(w) =>
                  /\ pc'[w] \in {"idle", "h_next"}
                  /\ stats'.transformed = stats.transformed
                  /\ trVars' = trVars /\ routeVars' = routeVars
                  /\ buffer' = buffer /\ appended' = appended /\ fileVars' = fileVars
                  /\ wEntry[w] \notin Range(appended)
                  /\ wEntry'[w] = 0
            /\ (pc[w] \in {"p_drop", "a_rlock", "a_return", "a_done"}
                    /\ pc'[w] \in {"p_drop", "a_rlock", "a_return", "a_done"}) =>
                  (wLr'[w] = wLr[w] /\ wRec'[w] = wRec[w])
         ]_vars
    /\ [](\A w \in Workers :
            pc[w] \in {"a_rlock", "a_return", "a_done"} => ShouldSample(wLr[w], samplingConfig))
    /\ [](/\ stats.transformed = Len(appended) + Cardinality(InWrite)
          /\ \A i, j \in 1..Len(appended) : appended[i] = appended[j] => i = j)

\* one record was dropped by sampling, one filtered by the allowlist, and the third is
\* the only entry the writer got
C36_Witness ==
    /\ stats.dropped = 1
    /\ stats.filtered = 1
    /\ stats.transformed = 1
    /\ Len(appended) = 1

(* ------------------------------- C37 ----------------------------------- *)

\* C37: while nobody holds the mutex of a writer with bufferSize >= 1, the buffer has
\* fewer than bufferSize entries.
C37_BufferBelowSizeWhenUnlocked ==
    (jsonWriterSet /\ bufferSize >= 1 /\ mu = {}) => Len(buffer) < bufferSize

\* the mutex is free after a flush at the buffer size and a Write of one more entry
C37_Witness ==
    /\ mu = {}
    /\ bufferSize = MaxBufferSize
    /\ Len(buffer) = bufferSize - 1
    /\ Len(appended) > bufferSize

(* ------------------------------- C38 ----------------------------------- *)

\* Close has returned: the flush task is gone and the file is closed
CloseReturned == pc[MainProc] = "m_gracefulStop" /\ pc[Flusher] = "f_done" /\ handle = "closed"

\* C38: a call of Close returns, whatever Write calls and periodic flush run beside
\* it: the flush task sees the stop signal and exits, and only then Close takes the
\* mutex, flushes and closes the file.
C38_CloseTerminates ==
    /\ (pc[MainProc] = "c_stop") ~> CloseReturned
    /\ [](pc[MainProc] \in {"c_lock", "c_check", "c_close"} \cup FlushPcs =>
              (stop /\ done /\ pc[Flusher] = "f_done"))
    /\ [](MainProc \in mu => pc[MainProc] \in {"c_check", "c_close"} \cup FlushPcs)

\* Close waits for the flush task, which is in a periodic flush, while a Write waits
\* for the mutex
C38_Witness ==
    /\ pc[MainProc] = "c_wait"
    /\ pc[Flusher] \in FlushPcs
    /\ \E w \in Workers : pc[w] = "w_lock"

(* ------------------------------- C39 ----------------------------------- *)

\* the record has no cf_app_name and no application_name with a non-empty string value
Unidentified(rec) == rec.cf = <<>> /\ rec.app = <<>>

\* C39: the empty identifier is in no set, constructed or about to be swapped in by a
\* reload, and IsAllowed on a set that is not empty is false for a record without an
\* identifier.
C39_NoIdentifierIsNeverAllowed ==
    /\ <<>> \notin apps
    /\ <<>> \notin newList
    /\ \A w \in Workers :
          (pc[w] = "a_done" /\ ~wEmpty[w] /\ Unidentified(wRec[w])) => ~wAllowed[w]

\* IsAllowed has returned false for a record without an identifier, on a set that a
\* reload has swapped in
C39_Witness ==
    /\ changesLeft < MaxChanges
    /\ \E w \in Workers :
          /\ pc[w] = "a_done"
          /\ wSeen[w] # {}
          /\ wSeen[w] \in {LoadFromFile(c) : c \in FileContents}
          /\ Unidentified(wRec[w])
          /\ ~wAllowed[w]
====
